---- MODULE Spec2Model ----
(***************************************************************************)
(* Verification model of codex-kaioken.                                    *)
(*                                                                         *)
(*  Part I  - the TUI chat engine (tui/src/chatwidget.rs): the streaming   *)
(*            controller, the deferred-interrupt queue, the active cell,   *)
(*            the queue of deferred user messages and the composer.        *)
(*  Part II - the subagent scheduler                                       *)
(*            (core/src/tools/handlers/subagent.rs).                       *)
(*                                                                         *)
(* Strings of the program are modelled as sequences of one-character       *)
(* strings, so that joining and concatenation are computed, not assumed.   *)
(***************************************************************************)
EXTENDS Integers, Sequences, FiniteSets, TLC

(***************************************************************************)
(* Bounds of the model                                                     *)
(***************************************************************************)
\* number of events / key presses dispatched to the chat widget
MaxChatSteps == 6
\* number of text lines the stream controller may hold uncommitted
MaxPending == 1
\* number of events the children of a call emit, all together
MaxChildEvents == 2

\* number of memories created (ids generated)
MaxMemories == 2

\* number of calls made to the memory store
MaxStoreOps == 3

\* the clock stops here
MaxNow == 1

\* number of times time passes between two calls of the extractor
MaxElapses == 2

\* length of the lists of any types diverse_top_k is applied to
MaxScored == 5

\* length of a run of one type in the lists diverse_top_k is applied to
MaxRun == 8

(***************************************************************************)
(* Generic helpers                                                         *)
(***************************************************************************)
IsPrefix(s, t) == Len(s) <= Len(t) /\ SubSeq(t, 1, Len(s)) = s

IsSuffix(s, t) == Len(s) <= Len(t) /\ SubSeq(t, Len(t) - Len(s) + 1, Len(t)) = s

\* slice::join(sep): the elements of a sequence of strings, separated by sep
RECURSIVE Join(_, _)
Join(strs, sep) ==
    IF Len(strs) = 0 THEN <<>>
    ELSE IF Len(strs) = 1 THEN strs[1]
    ELSE strs[1] \o sep \o Join(Tail(strs), sep)

(***************************************************************************)
(* Part I - the chat widget                                                *)
(***************************************************************************)
CallIds == {"A", "B"}

\* command lines of exec calls; the display form is command.join(" ")
Commands == {"c"}

NoWait == "None"

\* the texts a user may submit: "", "a", "b"
Texts == {<<>>, <<"a">>, <<"b">>}

NL == <<"\n">>

\* Option<StreamController>: is_some, and the lines pushed but not committed yet
NoStream == [is_some |-> FALSE, pending |-> 0]

\* Option<Box<dyn HistoryCell>>
NoCell == [kind |-> "none", calls |-> <<>>, failed |-> FALSE]

Cell(kind) == [kind |-> kind, calls |-> <<>>, failed |-> FALSE]

ExecCellOf(calls) == [kind |-> "exec", calls |-> calls, failed |-> FALSE]

McpCellOf(call) == [kind |-> "mcp", calls |-> <<call>>, failed |-> FALSE]

\* The events that pass through defer_or_handle, and PatchApplyBegin.
\*  opt : ExecBegin    - ExecCell::with_added_call returns Some (the call joins
\*                       the active exec group)
\*        ExecEnd      - ExecCell::should_flush returns true after the call
\*        PatchApplyEnd- event.success
\*  wait: ExecBegin    - a unified-exec wait interaction (empty input)
ToolEvent(kind, id, opt, wait) ==
    [kind |-> kind, call_id |-> id, opt |-> opt, wait |-> wait]

\* The exec calls of the model: A is an exploring command of the agent (it joins
\* an exec group and its cell stays active when it ends), B is a unified-exec
\* wait interaction (it starts a cell of its own, flushed when it ends).
ExecBeginEvents ==
    { ToolEvent("ExecBegin", "A", TRUE, FALSE), ToolEvent("ExecBegin", "B", FALSE, TRUE) }

ExecEndEvents ==
    { ToolEvent("ExecEnd", "A", FALSE, FALSE), ToolEvent("ExecEnd", "B", TRUE, FALSE) }

McpBeginEvents == { ToolEvent("McpBegin", "M", FALSE, FALSE) }

McpEndEvents == { ToolEvent("McpEnd", "M", FALSE, FALSE) }

PatchBeginEvent == ToolEvent("PatchBegin", "P", FALSE, FALSE)

PatchEndEvents == { ToolEvent("PatchEnd", "P", o, FALSE) : o \in BOOLEAN }

\* number of events of a kind and call id in a log
RECURSIVE Count(_, _, _)
Count(log, kind, id) ==
    IF log = <<>> THEN 0
    ELSE (IF Head(log).kind = kind /\ Head(log).call_id = id THEN 1 ELSE 0)
         + Count(Tail(log), kind, id)

\* the engine has begun the call and not ended it yet
Outstanding(log, begin, end, id) == Count(log, begin, id) > Count(log, end, id)

VARIABLES
    stream_controller,      \* ChatWidget.stream_controller
    interrupts,             \* ChatWidget.interrupts (InterruptManager queue)
    active_cell,            \* ChatWidget.active_cell
    history,                \* cells sent as AppEvent::InsertHistoryCell, in order
    running_commands,       \* ChatWidget.running_commands (its key set)
    suppressed_exec_calls,  \* ChatWidget.suppressed_exec_calls
    last_unified_wait,      \* ChatWidget.last_unified_wait
    task_running,           \* bottom_pane.is_task_running()
    composer_text,          \* bottom_pane.composer_text()
    queued_user_messages,   \* ChatWidget.queued_user_messages
    codex_op_tx,            \* ops sent to the engine, in order
    needs_separator,        \* ChatWidget.needs_final_message_separator
    delivered,              \* log: tool events dispatched to the widget
    handled,                \* log: tool events handled by a handle_*_now / on_patch_apply_begin
    last_event,             \* the last dispatched event
    chat_steps,             \* number of dispatched events
    plan_mode_enabled,      \* ChatWidget.plan_mode_enabled
    plan_workflow,          \* ChatWidget.plan_workflow
    plan_feedback_pending,  \* ChatWidget.plan_feedback_pending
    plan_popup              \* a PlanReviewView is the active view of the bottom pane

plan_vars == << plan_mode_enabled, plan_workflow, plan_feedback_pending, plan_popup >>

chat_vars ==
    << stream_controller, interrupts, active_cell, history, running_commands,
       suppressed_exec_calls, last_unified_wait, task_running, composer_text,
       queued_user_messages, codex_op_tx, needs_separator, delivered, handled,
       last_event, chat_steps, plan_vars >>

\* Part II - the state of a subagent_run call
VARIABLES
    sub_pc,           \* SubagentHandler::handle: "idle", "running", "rejected", "returned"
    sub_error,        \* the FunctionCallError::RespondToModel returned, or "none"
    sub_ntasks,       \* args.tasks.len()
    sub_raw_limit,    \* parent_config.subagent_max_tasks
    parent_approval,  \* parent_config.approval_policy
    task_pc,          \* position of each task future
    task_timeout,     \* timeout_duration of the task
    task_result,      \* result of the inner future: "none", "done", "timeout", an Err text
    last_message,     \* last_message of the task's loop
    cur_event,        \* the child event the task is about to forward
    child_alive,      \* the child conversation exists (its Codex has not been dropped)
    child_policy,     \* approval policy of the child's configuration
    child_out,        \* events the child has emitted on rx_event
    child_read,       \* number of them the task has received
    child_closed,     \* the child's event channel is closed
    parent_bus,       \* events sent with session.send_event, in order
    turn_cancelled    \* the parent turn has been cancelled

sub_vars ==
    << sub_pc, sub_error, sub_ntasks, sub_raw_limit, parent_approval, task_pc,
       task_timeout, task_result, last_message, cur_event, child_alive,
       child_policy, child_out, child_read, child_closed, parent_bus,
       turn_cancelled >>

\* Part III - the state of the memory store and of the rule-based extractor
VARIABLES
    memories,         \* table memories, by id; a row that is absent is NoRow
    relationships,    \* table relationships: rows (from_id, to_id, relation)
    docs,             \* ids that have a file <id>.md in the docs directory
    conn_lock,        \* MemoryStore.conn (tokio Mutex): "free" or the function holding its guard
    store_pc,         \* position of the task that calls the store
    store_caller,     \* the outermost call in progress: "none", "store", "decay", "init"
    store_arg,        \* the Memory (or the id) the call in progress was given
    store_last,       \* the last SQL statement executed
    store_deleted,    \* rows deleted by the last DELETE statement
    store_ops,        \* number of calls made
    foreign_keys,     \* SQLite foreign-key enforcement of the connection: "default"
                      \* until a statement depends on it, then "on" or "off"
    next_id,          \* number of ids (uuid v4) generated so far
    now,              \* the clock, in seconds
    recent_failures,  \* MemoryExtractor.recent_failures: the entries of the map
    emitted,          \* memories returned by the last extractor call
    last_call,        \* the last extractor call and its arguments
    last_exec,        \* per failure key: the last failed exec no success has followed
    embedding_service, \* MemoryStore.embedding_service is Some
    embedded,         \* ids of the rows whose column embedding is not NULL
    max_retrieval_count,  \* MemoryConfig.max_retrieval_count
    max_injection_tokens, \* MemoryConfig.max_injection_tokens
    retrieval,        \* the last call of the retriever or the injector and its result
    diverse,          \* the last call of diverse_top_k alone: its arguments and result
    decay_run,        \* the calls of apply_decay so far: their number, and the
                      \* table before the first of them
    extractions       \* per caller of on_exec_complete: how far its call has got

\* the embedding columns; the embedding of a row is that of its content
emb_vars == << embedding_service, embedded >>

\* the configuration and the calls of the retriever and the injector
ret_vars == << max_retrieval_count, max_injection_tokens, retrieval, diverse >>

mem_vars ==
    << memories, relationships, docs, conn_lock, store_pc, store_caller, store_arg,
       store_last, store_deleted, store_ops, foreign_keys, next_id, now,
       recent_failures, emitted, last_call, last_exec, emb_vars, ret_vars,
       decay_run, extractions >>

\* the widget as one value, for the handlers below
Widget ==
    [ stream_controller |-> stream_controller,
      interrupts |-> interrupts,
      active_cell |-> active_cell,
      history |-> history,
      running_commands |-> running_commands,
      suppressed_exec_calls |-> suppressed_exec_calls,
      last_unified_wait |-> last_unified_wait,
      task_running |-> task_running,
      composer_text |-> composer_text,
      queued_user_messages |-> queued_user_messages,
      codex_op_tx |-> codex_op_tx,
      needs_separator |-> needs_separator,
      handled |-> handled ]

ChatWidget_new ==
    [ stream_controller |-> NoStream,
      interrupts |-> <<>>,
      active_cell |-> NoCell,
      history |-> <<>>,
      running_commands |-> {},
      suppressed_exec_calls |-> {},
      last_unified_wait |-> NoWait,
      task_running |-> FALSE,
      composer_text |-> <<>>,
      queued_user_messages |-> <<>>,
      codex_op_tx |-> <<>>,
      needs_separator |-> FALSE,
      handled |-> <<>> ]

----------------------------------------------------------------------------
\* history plumbing

flush_active_cell(w) ==
    IF w.active_cell.kind # "none"
    THEN [w EXCEPT !.needs_separator = TRUE,
                   !.history = Append(w.history, w.active_cell),
                   !.active_cell = NoCell]
    ELSE w

\* every cell of the model renders visible lines
add_boxed_history(w, cell) ==
    LET w1 == flush_active_cell(w)
    IN [w1 EXCEPT !.needs_separator = TRUE,
                  !.history = Append(w1.history, cell)]

add_to_history(w, cell) == add_boxed_history(w, cell)

\* StreamController::finalize: the unflushed text is emitted as a final cell
StreamController_finalize(c) == c.pending > 0

flush_answer_stream_with_separator(w) ==
    IF w.stream_controller.is_some
    THEN LET w1 == [w EXCEPT !.stream_controller = NoStream]
         IN IF StreamController_finalize(w.stream_controller)
            THEN add_boxed_history(w1, Cell("agent"))
            ELSE w1
    ELSE w

\* StreamController::push: one more line waits for a commit tick
StreamController_push(c) == [c EXCEPT !.pending = c.pending + 1]

handle_streaming_delta(w) ==
    LET w1 == flush_active_cell(w)
        w2 == IF ~w1.stream_controller.is_some
              THEN LET w3 == IF w1.needs_separator
                             THEN [add_to_history(w1, Cell("separator"))
                                     EXCEPT !.needs_separator = FALSE]
                             ELSE w1
                   IN [w3 EXCEPT !.stream_controller =
                                     [is_some |-> TRUE, pending |-> 0]]
              ELSE w1
    IN [w2 EXCEPT !.stream_controller = StreamController_push(w2.stream_controller)]

\* StreamController::on_commit_tick: at most one line moves into history
on_commit_tick(w) ==
    IF w.stream_controller.is_some /\ w.stream_controller.pending > 0
    THEN add_boxed_history(
             [w EXCEPT !.stream_controller.pending = w.stream_controller.pending - 1],
             Cell("agent"))
    ELSE w

----------------------------------------------------------------------------
\* the handle_*_now family; each records the event in the handled log
\* together with whether a stream was still open when it ran

Handled(w, ev) ==
    [w EXCEPT !.handled =
        Append(w.handled, [ev |-> ev, stream_open |-> w.stream_controller.is_some,
                           replayed |-> FALSE])]

handle_exec_begin_now(w0, ev) ==
    LET w   == Handled(w0, ev)
        w1  == [w EXCEPT !.running_commands = w.running_commands \cup {ev.call_id}]
        is_wait_interaction == ev.wait
        command_display == "c"
        should_suppress_unified_wait ==
            is_wait_interaction /\ w1.last_unified_wait = command_display
        w2  == [w1 EXCEPT !.last_unified_wait =
                   IF is_wait_interaction THEN command_display ELSE NoWait]
    IN IF should_suppress_unified_wait
       THEN [w2 EXCEPT !.suppressed_exec_calls =
                           w2.suppressed_exec_calls \cup {ev.call_id}]
       ELSE IF w2.active_cell.kind = "exec" /\ ev.opt
            THEN [w2 EXCEPT !.active_cell.calls =
                                Append(w2.active_cell.calls, ev.call_id)]
            ELSE [flush_active_cell(w2) EXCEPT
                     !.active_cell = ExecCellOf(<<ev.call_id>>)]

handle_exec_end_now(w0, ev) ==
    LET w   == Handled(w0, ev)
        w1  == [w EXCEPT !.running_commands = w.running_commands \ {ev.call_id}]
    IN IF ev.call_id \in w1.suppressed_exec_calls
       THEN [w1 EXCEPT !.suppressed_exec_calls =
                           w1.suppressed_exec_calls \ {ev.call_id}]
       ELSE LET needs_new == w1.active_cell.kind # "exec"
                w2 == IF needs_new
                      THEN [flush_active_cell(w1) EXCEPT
                               !.active_cell = ExecCellOf(<<ev.call_id>>)]
                      ELSE w1
            IN IF ev.opt THEN flush_active_cell(w2) ELSE w2

handle_mcp_begin_now(w0, ev) ==
    LET w  == Handled(w0, ev)
        w1 == flush_active_cell(flush_answer_stream_with_separator(w))
    IN [w1 EXCEPT !.active_cell = McpCellOf(ev.call_id)]

\* McpToolCallCell::complete yields no extra (image) cell for the results modelled
handle_mcp_end_now(w0, ev) ==
    LET w  == Handled(w0, ev)
        w1 == flush_answer_stream_with_separator(w)
        w2 == IF w1.active_cell.kind = "mcp" /\ w1.active_cell.calls = <<ev.call_id>>
              THEN w1
              ELSE [flush_active_cell(w1) EXCEPT !.active_cell = McpCellOf(ev.call_id)]
    IN flush_active_cell(w2)

handle_patch_apply_end_now(w0, ev) ==
    LET w == Handled(w0, ev)
    IN IF ~ev.opt THEN add_to_history(w, Cell("patch_failure")) ELSE w

handle_now(w, ev) ==
    CASE ev.kind = "ExecBegin" -> handle_exec_begin_now(w, ev)
      [] ev.kind = "ExecEnd"   -> handle_exec_end_now(w, ev)
      [] ev.kind = "McpBegin"  -> handle_mcp_begin_now(w, ev)
      [] ev.kind = "McpEnd"    -> handle_mcp_end_now(w, ev)
      [] ev.kind = "PatchEnd"  -> handle_patch_apply_end_now(w, ev)

----------------------------------------------------------------------------
\* the deferred-interrupt queue

\* InterruptManager::push_*: the event joins the back of the queue
InterruptManager_push(q, ev) == Append(q, ev)

\* InterruptManager::flush_all: the queued events are handled front to back
RECURSIVE InterruptManager_flush_all(_, _)
InterruptManager_flush_all(q, w) ==
    IF q = <<>> THEN w
    ELSE LET w1 == handle_now(w, Head(q))
         IN InterruptManager_flush_all(
                Tail(q), [w1 EXCEPT !.handled[Len(w1.handled)].replayed = TRUE])

flush_interrupt_queue(w) ==
    LET mgr == w.interrupts
        w1  == InterruptManager_flush_all(mgr, [w EXCEPT !.interrupts = <<>>])
    IN [w1 EXCEPT !.interrupts = <<>>]

\* variant: only an open stream defers, a non-empty queue does not
defer_or_handle_stream_only(w, ev) ==
    IF w.stream_controller.is_some
    THEN [w EXCEPT !.interrupts = InterruptManager_push(w.interrupts, ev)]
    ELSE handle_now(w, ev)

defer_or_handle(w, ev) ==
    IF w.stream_controller.is_some \/ w.interrupts # <<>>
    THEN [w EXCEPT !.interrupts = InterruptManager_push(w.interrupts, ev)]
    ELSE handle_now(w, ev)

handle_stream_finished(w) == flush_interrupt_queue(w)

----------------------------------------------------------------------------
\* user messages

\* UserMessage { text, image_paths }; display_text is None for composer input
UserMessage(text, images) == [text |-> text, images |-> images]

Msgs == { UserMessage(<<"a">>, FALSE), UserMessage(<<"b">>, FALSE),
          UserMessage(<<>>, TRUE) }

Op(op, text, images) == [op |-> op, text |-> text, images |-> images]

\* none of the modelled texts is a "!cmd" shell command or a local command
submit_user_message(w, m) ==
    IF m.text = <<>> /\ ~m.images THEN w
    ELSE LET w1 == [w EXCEPT !.codex_op_tx =
                        Append(w.codex_op_tx, Op("UserInput", m.text, m.images))]
             visible_text == IF "display_text" \in DOMAIN m THEN m.display_text
                             ELSE m.text
             w2 == IF visible_text # <<>>
                   THEN add_to_history(
                            [w1 EXCEPT !.codex_op_tx =
                                Append(w1.codex_op_tx,
                                       Op("AddToHistory", visible_text, FALSE))],
                            Cell("user"))
                   ELSE w1
         IN [w2 EXCEPT !.needs_separator = FALSE]

\* plan mode is off: handle_plan_submission returns false
queue_user_message(w, m) ==
    IF w.task_running
    THEN [w EXCEPT !.queued_user_messages = Append(w.queued_user_messages, m)]
    ELSE submit_user_message(w, m)

\* variant: the most recently queued message is the one sent
maybe_send_next_queued_input_newest(w) ==
    IF w.task_running THEN w
    ELSE IF w.queued_user_messages # <<>>
         THEN submit_user_message(
                  [w EXCEPT !.queued_user_messages =
                       SubSeq(w.queued_user_messages, 1, Len(w.queued_user_messages) - 1)],
                  w.queued_user_messages[Len(w.queued_user_messages)])
         ELSE w

maybe_send_next_queued_input(w) ==
    IF w.task_running THEN w
    ELSE IF w.queued_user_messages # <<>>
         THEN submit_user_message(
                  [w EXCEPT !.queued_user_messages = Tail(w.queued_user_messages)],
                  Head(w.queued_user_messages))
         ELSE w

----------------------------------------------------------------------------
\* turn life cycle

on_agent_message(w) ==
    LET w1 == IF ~w.stream_controller.is_some THEN handle_streaming_delta(w) ELSE w
        w2 == flush_answer_stream_with_separator(w1)
    IN handle_stream_finished(w2)

on_agent_message_delta(w) == handle_streaming_delta(w)

on_task_started(w) == [w EXCEPT !.task_running = TRUE]

on_task_complete(w) ==
    LET w1 == flush_answer_stream_with_separator(w)
        w2 == [w1 EXCEPT !.task_running = FALSE,
                         !.running_commands = {},
                         !.suppressed_exec_calls = {},
                         !.last_unified_wait = NoWait]
    IN maybe_send_next_queued_input(w2)

finalize_active_cell_as_failed(w) ==
    IF w.active_cell.kind # "none"
    THEN LET cell == IF w.active_cell.kind \in {"exec", "mcp"}
                     THEN [w.active_cell EXCEPT !.failed = TRUE]
                     ELSE w.active_cell
         IN add_boxed_history([w EXCEPT !.active_cell = NoCell], cell)
    ELSE w

finalize_turn(w) ==
    LET w1 == finalize_active_cell_as_failed(w)
    IN [w1 EXCEPT !.task_running = FALSE,
                  !.running_commands = {},
                  !.suppressed_exec_calls = {},
                  !.last_unified_wait = NoWait,
                  !.stream_controller = NoStream]

on_error(w) ==
    maybe_send_next_queued_input(add_to_history(finalize_turn(w), Cell("error")))

\* variant: the interrupt goes on to send the next queued message
on_interrupted_turn_autosubmit(w, reason) ==
    LET w1 == finalize_turn(w)
        w2 == IF reason # "ReviewEnded" THEN add_to_history(w1, Cell("error")) ELSE w1
    IN maybe_send_next_queued_input(w2)

on_interrupted_turn(w, reason) ==
    LET w1 == finalize_turn(w)
        w2 == IF reason # "ReviewEnded" THEN add_to_history(w1, Cell("error")) ELSE w1
    IN IF w2.queued_user_messages # <<>>
       THEN LET queued_text ==
                    Join([i \in 1..Len(w2.queued_user_messages) |->
                              w2.queued_user_messages[i].text], NL)
                existing_text == w2.composer_text
                combined == IF existing_text = <<>> THEN queued_text
                            ELSE IF queued_text = <<>> THEN existing_text
                            ELSE queued_text \o NL \o existing_text
            IN [w2 EXCEPT !.composer_text = combined,
                          !.queued_user_messages = <<>>]
       ELSE w2

----------------------------------------------------------------------------
\* tool events

on_exec_command_begin(w, ev) ==
    defer_or_handle(flush_answer_stream_with_separator(w), ev)

on_exec_command_end(w, ev) == defer_or_handle(w, ev)

on_mcp_tool_call_begin(w, ev) == defer_or_handle(w, ev)

on_mcp_tool_call_end(w, ev) == defer_or_handle(w, ev)

on_patch_apply_begin(w, ev) == add_to_history(Handled(w, ev), Cell("patch"))

on_patch_apply_end(w, ev) == defer_or_handle(w, ev)

----------------------------------------------------------------------------
\* Part I - actions: one per event delivered to handle_codex_event, per key
\* press and per commit tick

SetWidgetInit ==
    /\ stream_controller = ChatWidget_new.stream_controller
    /\ interrupts = ChatWidget_new.interrupts
    /\ active_cell = ChatWidget_new.active_cell
    /\ history = ChatWidget_new.history
    /\ running_commands = ChatWidget_new.running_commands
    /\ suppressed_exec_calls = ChatWidget_new.suppressed_exec_calls
    /\ last_unified_wait = ChatWidget_new.last_unified_wait
    /\ task_running = ChatWidget_new.task_running
    /\ composer_text = ChatWidget_new.composer_text
    /\ queued_user_messages = ChatWidget_new.queued_user_messages
    /\ codex_op_tx = ChatWidget_new.codex_op_tx
    /\ needs_separator = ChatWidget_new.needs_separator
    /\ handled = ChatWidget_new.handled

SetWidget(w) ==
    /\ stream_controller' = w.stream_controller
    /\ interrupts' = w.interrupts
    /\ active_cell' = w.active_cell
    /\ history' = w.history
    /\ running_commands' = w.running_commands
    /\ suppressed_exec_calls' = w.suppressed_exec_calls
    /\ last_unified_wait' = w.last_unified_wait
    /\ task_running' = w.task_running
    /\ composer_text' = w.composer_text
    /\ queued_user_messages' = w.queued_user_messages
    /\ codex_op_tx' = w.codex_op_tx
    /\ needs_separator' = w.needs_separator
    /\ handled' = w.handled

Step(name) ==
    /\ chat_steps < MaxChatSteps
    /\ chat_steps' = chat_steps + 1
    /\ last_event' = name
    /\ UNCHANGED << plan_vars, sub_vars, mem_vars >>

AgentMessageDelta ==
    /\ Step("AgentMessageDelta")
    /\ stream_controller.pending < MaxPending
    /\ SetWidget(on_agent_message_delta(Widget))
    /\ UNCHANGED delivered

AgentMessage ==
    /\ Step("AgentMessage")
    /\ SetWidget(on_agent_message(Widget))
    /\ UNCHANGED delivered

CommitTick ==
    /\ Step("CommitTick")
    /\ stream_controller.is_some
    /\ stream_controller.pending > 0
    /\ SetWidget(on_commit_tick(Widget))
    /\ UNCHANGED delivered

TaskStarted ==
    /\ Step("TaskStarted")
    /\ SetWidget(on_task_started(Widget))
    /\ UNCHANGED delivered

TaskComplete ==
    /\ Step("TaskComplete")
    /\ SetWidget(on_task_complete(Widget))
    /\ UNCHANGED delivered

TurnAborted ==
    \E reason \in {"Interrupted", "ReviewEnded", "Replaced"} :
        /\ Step(reason)
        /\ SetWidget(IF reason = "Replaced" THEN on_error(Widget)
                     ELSE on_interrupted_turn(Widget, reason))
        /\ UNCHANGED delivered

Error ==
    /\ Step("Error")
    /\ SetWidget(on_error(Widget))
    /\ UNCHANGED delivered

ExecCommandBegin ==
    \E ev \in ExecBeginEvents :
        /\ Step("ExecBegin")
        /\ ~Outstanding(delivered, "ExecBegin", "ExecEnd", ev.call_id)
        /\ SetWidget(on_exec_command_begin(Widget, ev))
        /\ delivered' = Append(delivered, ev)

ExecCommandEnd ==
    \E ev \in ExecEndEvents :
        /\ Step("ExecEnd")
        /\ Outstanding(delivered, "ExecBegin", "ExecEnd", ev.call_id)
        /\ SetWidget(on_exec_command_end(Widget, ev))
        /\ delivered' = Append(delivered, ev)

McpToolCallBegin ==
    \E ev \in McpBeginEvents :
        /\ Step("McpBegin")
        /\ ~Outstanding(delivered, "McpBegin", "McpEnd", ev.call_id)
        /\ SetWidget(on_mcp_tool_call_begin(Widget, ev))
        /\ delivered' = Append(delivered, ev)

McpToolCallEnd ==
    \E ev \in McpEndEvents :
        /\ Step("McpEnd")
        /\ Outstanding(delivered, "McpBegin", "McpEnd", ev.call_id)
        /\ SetWidget(on_mcp_tool_call_end(Widget, ev))
        /\ delivered' = Append(delivered, ev)

PatchApplyBegin ==
    /\ Step("PatchBegin")
    /\ ~Outstanding(delivered, "PatchBegin", "PatchEnd", "P")
    /\ SetWidget(on_patch_apply_begin(Widget, PatchBeginEvent))
    /\ delivered' = Append(delivered, PatchBeginEvent)

PatchApplyEnd ==
    \E ev \in PatchEndEvents :
        /\ Step("PatchEnd")
        /\ Outstanding(delivered, "PatchBegin", "PatchEnd", "P")
        /\ SetWidget(on_patch_apply_end(Widget, ev))
        /\ delivered' = Append(delivered, ev)

\* handle_key_event, InputResult::Submitted: the composer hands over its text
KeySubmit ==
    \E m \in Msgs :
        /\ Step("KeySubmit")
        /\ composer_text = <<>>
        /\ SetWidget(queue_user_message(Widget, m))
        /\ UNCHANGED delivered

\* handle_key_event, Alt+Up: the most recently queued message returns to the composer
KeyAltUp ==
    /\ Step("KeyAltUp")
    /\ queued_user_messages # <<>>
    /\ SetWidget([Widget EXCEPT
           !.composer_text =
               queued_user_messages[Len(queued_user_messages)].text,
           !.queued_user_messages =
               SubSeq(queued_user_messages, 1, Len(queued_user_messages) - 1)])
    /\ UNCHANGED delivered

\* the user types a draft into the empty composer
TypeText ==
    \E t \in Texts \ {<<>>} :
        /\ Step("TypeText")
        /\ composer_text = <<>>
        /\ SetWidget([Widget EXCEPT !.composer_text = t])
        /\ UNCHANGED delivered

\* Option<PlanWorkflow>: None
NoWorkflow ==
    [some |-> FALSE, request |-> UserMessage(<<>>, FALSE), status |-> "AwaitingPlan",
     last_plan |-> FALSE, extra_feedback |-> <<>>]

ChatInit ==
    /\ SetWidgetInit
    /\ plan_mode_enabled = FALSE
    /\ plan_workflow = NoWorkflow
    /\ plan_feedback_pending = FALSE
    /\ plan_popup = FALSE
    /\ delivered = <<>>
    /\ last_event = "Init"
    /\ chat_steps = 0

\* the stream, the tool events and the ends of a turn
ChatNext ==
    \/ AgentMessageDelta
    \/ AgentMessage
    \/ CommitTick
    \/ TaskComplete
    \/ TurnAborted
    \/ ExecCommandBegin
    \/ ExecCommandEnd
    \/ McpToolCallBegin
    \/ McpToolCallEnd
    \/ PatchApplyBegin
    \/ PatchApplyEnd

\* the turn life cycle and the keyboard
TurnNext ==
    \/ TaskStarted
    \/ TaskComplete
    \/ TurnAborted
    \/ Error
    \/ KeySubmit
    \/ KeyAltUp
    \/ TypeText

(***************************************************************************)
(* Part II - the subagent scheduler                                        *)
(***************************************************************************)
SUBAGENT_LIMIT_MIN == 1

SUBAGENT_LIMIT_HARD_CAP == 8

\* the task futures of a call that is accepted (agent_index + 1)
TaskIds == {1, 2}

\* parent_config.subagent_max_tasks as configured, in and out of range
RawLimits == {0, 9}

\* number of tasks in the arguments of a call
TaskCounts == {0, 1, 2, 3, SUBAGENT_LIMIT_HARD_CAP + 1}

AskForApproval == {"OnRequest", "Never"}

\* SubagentTask.timeout_ms: absent, negative, or a deadline
TimeoutChoices ==
    { [some |-> FALSE, ms |-> 0], [some |-> TRUE, ms |-> -1], [some |-> TRUE, ms |-> 1000] }

NoneStr == "None"

AgentTexts == {"m1"}

\* events of a child conversation; n numbers them in the child's emission order
ChildEvent(kind, n, msg) == [kind |-> kind, n |-> n, msg |-> msg]

NoChildEvent == ChildEvent("none", 0, NoneStr)

\* the kinds the children of the model emit
ChildKinds ==
    {"AgentMessage", "ExecCommandBegin", "ExecCommandEnd", "Error", "TaskComplete"}

----------------------------------------------------------------------------
\* helpers of the handler

\* i64::clamp
Clamp(x, lo, hi) == IF x < lo THEN lo ELSE IF x > hi THEN hi ELSE x

\* variant: the hard cap is applied whatever limit is configured
effective_subagent_limit_hard_cap(raw_limit) == SUBAGENT_LIMIT_HARD_CAP

effective_subagent_limit(raw_limit) ==
    Clamp(raw_limit, SUBAGENT_LIMIT_MIN, SUBAGENT_LIMIT_HARD_CAP)

\* variant: the child inherits the approval policy of its parent
make_child_config_inherit(parent_policy) == parent_policy

\* the approval policy of the child configuration
make_child_config(parent_policy) == "Never"

DEFAULT_CHILD_TIMEOUT == [some |-> FALSE, ms |-> 0]

\* timeout_ms.and_then(|ms| u64::try_from(ms).ok()).or(DEFAULT_CHILD_TIMEOUT)
timeout_duration(timeout_ms) ==
    IF timeout_ms.some /\ timeout_ms.ms >= 0 THEN timeout_ms ELSE DEFAULT_CHILD_TIMEOUT

SubagentTaskUpdate(task, status, summary) ==
    [type |-> "SubagentTaskUpdate", task |-> task, agent_index |-> -1,
     status |-> status, summary |-> summary, event |-> NoChildEvent]

SubagentHistoryItem(task, agent_index, event) ==
    [type |-> "SubagentHistoryItem", task |-> task, agent_index |-> agent_index,
     status |-> NoneStr, summary |-> NoneStr, event |-> event]

send_subagent_update(bus, task, status, summary) ==
    Append(bus, SubagentTaskUpdate(task, status, summary))

send_subagent_history_item(bus, task, agent_index, event) ==
    Append(bus, SubagentHistoryItem(task, agent_index, event))

\* variant: the arm of the match lacks ExecCommandEnd
ForwardsAsHistoryItem_no_exec_end(kind) ==
    kind \in {"ExecCommandBegin", "ExecCommandOutputDelta",
              "PatchApplyBegin", "PatchApplyEnd", "McpToolCallBegin",
              "McpToolCallEnd", "WebSearchBegin", "WebSearchEnd"}

\* the arm of the match in the loop of run_subagent_task that forwards the event
ForwardsAsHistoryItem(kind) ==
    kind \in {"ExecCommandBegin", "ExecCommandOutputDelta", "ExecCommandEnd",
              "PatchApplyBegin", "PatchApplyEnd", "McpToolCallBegin",
              "McpToolCallEnd", "WebSearchBegin", "WebSearchEnd"}

\* the final status and summary from the result of the inner future
FinalStatus(result) ==
    IF result = "done" THEN "Done"
    ELSE IF result = "timeout" THEN "Timeout"
    ELSE "Failed"

FinalSummary(result, output) ==
    IF result = "done" THEN output
    ELSE IF result = "timeout" THEN "timed out after Ns"
    ELSE result

----------------------------------------------------------------------------
\* Part II - actions

SubInit ==
    /\ sub_pc = "idle"
    /\ sub_error = "none"
    /\ sub_ntasks = 0
    /\ sub_raw_limit = 1
    /\ parent_approval = "OnRequest"
    /\ task_pc = [t \in TaskIds |-> "absent"]
    /\ task_timeout = [t \in TaskIds |-> DEFAULT_CHILD_TIMEOUT]
    /\ task_result = [t \in TaskIds |-> "none"]
    /\ last_message = [t \in TaskIds |-> NoneStr]
    /\ cur_event = [t \in TaskIds |-> NoChildEvent]
    /\ child_alive = [t \in TaskIds |-> FALSE]
    /\ child_policy = [t \in TaskIds |-> NoneStr]
    /\ child_out = [t \in TaskIds |-> <<>>]
    /\ child_read = [t \in TaskIds |-> 0]
    /\ child_closed = [t \in TaskIds |-> FALSE]
    /\ parent_bus = <<>>
    /\ turn_cancelled = FALSE

\* SubagentHandler::handle up to the creation of the task futures
Handle ==
    /\ sub_pc = "idle"
    /\ \E n \in TaskCounts, raw \in RawLimits, policy \in AskForApproval,
          failure \in {"none", "payload", "parse", "auth", "config"},
          timeouts \in [TaskIds -> TimeoutChoices] :
        LET task_limit == effective_subagent_limit(raw)
        IN /\ n > task_limit \/ n <= Cardinality(TaskIds)
           /\ \A t \in TaskIds : t > n => timeouts[t] = DEFAULT_CHILD_TIMEOUT
           \* the calls tried: a parent that never asks for approval comes
           \* with tasks without deadline
           /\ policy = "Never" => \A t \in TaskIds : timeouts[t] = DEFAULT_CHILD_TIMEOUT
           /\ sub_ntasks' = n
           /\ sub_raw_limit' = raw
           /\ parent_approval' = policy
           /\ IF failure = "payload"
              THEN /\ sub_error' = "subagent_run handler received unsupported payload"
                   /\ sub_pc' = "rejected"
                   /\ UNCHANGED << task_pc, task_timeout >>
              ELSE IF failure = "parse"
              THEN /\ sub_error' = "failed to parse function arguments"
                   /\ sub_pc' = "rejected"
                   /\ UNCHANGED << task_pc, task_timeout >>
              ELSE IF n = 0
              THEN /\ sub_error' = "tasks must not be empty"
                   /\ sub_pc' = "rejected"
                   /\ UNCHANGED << task_pc, task_timeout >>
              ELSE IF failure = "auth"
              THEN /\ sub_error' = "auth manager unavailable"
                   /\ sub_pc' = "rejected"
                   /\ UNCHANGED << task_pc, task_timeout >>
              ELSE IF failure = "config"
              THEN /\ sub_error' = "config unavailable"
                   /\ sub_pc' = "rejected"
                   /\ UNCHANGED << task_pc, task_timeout >>
              ELSE IF n > task_limit
              THEN /\ sub_error' = "too many subagent tasks"
                   /\ sub_pc' = "rejected"
                   /\ UNCHANGED << task_pc, task_timeout >>
              ELSE /\ sub_error' = "none"
                   /\ sub_pc' = "running"
                   /\ task_pc' = [t \in TaskIds |-> IF t <= n THEN "start" ELSE "absent"]
                   /\ task_timeout' = [t \in TaskIds |-> timeout_duration(timeouts[t])]
           /\ UNCHANGED << task_result, last_message, cur_event, child_alive,
                           child_policy, child_out, child_read, child_closed,
                           parent_bus, turn_cancelled >>
    /\ UNCHANGED << chat_vars, mem_vars >>

\* the task future sends its Running update
TaskStart(t) ==
    /\ task_pc[t] = "start"
    /\ parent_bus' = send_subagent_update(parent_bus, t, "Running", NoneStr)
    /\ task_pc' = [task_pc EXCEPT ![t] = "spawn"]
    /\ UNCHANGED << sub_pc, sub_error, sub_ntasks, sub_raw_limit, parent_approval,
                    task_timeout, task_result, last_message, cur_event, child_alive,
                    child_policy, child_out, child_read, child_closed,
                    turn_cancelled >>
    /\ UNCHANGED << chat_vars, mem_vars >>

\* Codex::spawn with the child configuration
Spawn(t) ==
    /\ task_pc[t] = "spawn"
    /\ \E ok \in BOOLEAN :
        IF ok
        THEN /\ child_alive' = [child_alive EXCEPT ![t] = TRUE]
             /\ child_policy' = [child_policy EXCEPT ![t] = make_child_config(parent_approval)]
             /\ task_pc' = [task_pc EXCEPT ![t] = "submit"]
             /\ UNCHANGED task_result
        ELSE /\ task_result' = [task_result EXCEPT ![t] = "failed to spawn subagent"]
             /\ task_pc' = [task_pc EXCEPT ![t] = "final"]
             /\ UNCHANGED << child_alive, child_policy >>
    /\ UNCHANGED << sub_pc, sub_error, sub_ntasks, sub_raw_limit, parent_approval,
                    task_timeout, last_message, cur_event, child_out, child_read,
                    child_closed, parent_bus, turn_cancelled >>
    /\ UNCHANGED << chat_vars, mem_vars >>

\* codex.submit(Op::UserInput); on an error the future ends and drops the child
Submit(t) ==
    /\ task_pc[t] = "submit"
    /\ \E ok \in BOOLEAN :
        IF ok
        THEN /\ task_pc' = [task_pc EXCEPT ![t] = "recv"]
             /\ UNCHANGED << task_result, child_alive >>
        ELSE /\ task_result' = [task_result EXCEPT ![t] = "failed to submit subagent task"]
             /\ child_alive' = [child_alive EXCEPT ![t] = FALSE]
             /\ task_pc' = [task_pc EXCEPT ![t] = "final"]
    /\ UNCHANGED << sub_pc, sub_error, sub_ntasks, sub_raw_limit, parent_approval,
                    task_timeout, last_message, cur_event, child_policy, child_out,
                    child_read, child_closed, parent_bus, turn_cancelled >>
    /\ UNCHANGED << chat_vars, mem_vars >>

\* the last AgentMessage text a child has emitted, None when it emitted none
RECURSIVE LastAgentMessage(_)
LastAgentMessage(out) ==
    IF out = <<>> THEN NoneStr
    ELSE IF out[Len(out)].kind = "AgentMessage" THEN out[Len(out)].msg
    ELSE LastAgentMessage(SubSeq(out, 1, Len(out) - 1))

HasKind(out, kind) == \E k \in 1..Len(out) : out[k].kind = kind

RECURSIVE SumLen(_, _)
SumLen(f, ids) ==
    IF ids = {} THEN 0
    ELSE LET t == CHOOSE x \in ids : TRUE
         IN Len(f[t]) + SumLen(f, ids \ {t})

\* the child conversation emits an event of its turn
ChildEmit(t) ==
    /\ task_pc[t] \in {"recv", "send"}
    /\ child_alive[t] /\ ~child_closed[t]
    /\ ~HasKind(child_out[t], "TaskComplete")
    /\ SumLen(child_out, TaskIds) < MaxChildEvents
    /\ \E kind \in ChildKinds, text \in AgentTexts :
        /\ kind = "ExecCommandEnd" =>
               /\ child_out[t] # <<>>
               /\ child_out[t][Len(child_out[t])].kind = "ExecCommandBegin"
        /\ LET msg == IF kind = "AgentMessage" THEN text
                   ELSE IF kind = "TaskComplete" THEN LastAgentMessage(child_out[t])
                   ELSE NoneStr
           IN child_out' = [child_out EXCEPT ![t] =
                               Append(@, ChildEvent(kind, Len(@) + 1, msg))]
    /\ UNCHANGED << sub_pc, sub_error, sub_ntasks, sub_raw_limit, parent_approval,
                    task_pc, task_timeout, task_result, last_message, cur_event,
                    child_alive, child_policy, child_read, child_closed, parent_bus,
                    turn_cancelled >>
    /\ UNCHANGED << chat_vars, mem_vars >>

\* the child conversation ends without completing its turn; rx_event closes
ChildClose(t) ==
    /\ task_pc[t] \in {"recv", "send"}
    /\ child_alive[t] /\ ~child_closed[t]
    /\ ~HasKind(child_out[t], "TaskComplete")
    /\ child_closed' = [child_closed EXCEPT ![t] = TRUE]
    /\ child_alive' = [child_alive EXCEPT ![t] = FALSE]
    /\ UNCHANGED << sub_pc, sub_error, sub_ntasks, sub_raw_limit, parent_approval,
                    task_pc, task_timeout, task_result, last_message, cur_event,
                    child_policy, child_out, child_read, parent_bus,
                    turn_cancelled >>
    /\ UNCHANGED << chat_vars, mem_vars >>

\* the end of the inner future after its loop: Ok(SubagentResult "done")
LoopEnd(t, last) ==
    /\ last_message' = [last_message EXCEPT ![t] =
                           IF last = NoneStr THEN "no result produced" ELSE last]
    /\ task_result' = [task_result EXCEPT ![t] = "done"]
    /\ child_alive' = [child_alive EXCEPT ![t] = FALSE]
    /\ task_pc' = [task_pc EXCEPT ![t] = "final"]

\* codex.rx_event.recv().await and the match on the event
Recv(t) ==
    /\ task_pc[t] = "recv"
    /\ IF child_read[t] < Len(child_out[t])
       THEN LET ev == child_out[t][child_read[t] + 1]
            IN /\ child_read' = [child_read EXCEPT ![t] = @ + 1]
               /\ IF ev.kind = "AgentMessage" \/ ev.kind = "TaskComplete"
                  THEN /\ last_message' = [last_message EXCEPT ![t] = ev.msg]
                       /\ cur_event' = [cur_event EXCEPT ![t] = ev]
                       /\ task_pc' = [task_pc EXCEPT ![t] = "send"]
                  ELSE IF ForwardsAsHistoryItem(ev.kind)
                  THEN /\ cur_event' = [cur_event EXCEPT ![t] = ev]
                       /\ task_pc' = [task_pc EXCEPT ![t] = "send"]
                       /\ UNCHANGED last_message
                  ELSE UNCHANGED << last_message, cur_event, task_pc >>
               /\ UNCHANGED << task_result, child_alive >>
       ELSE /\ child_closed[t]
            /\ LoopEnd(t, last_message[t])
            /\ UNCHANGED << child_read, cur_event >>
    /\ UNCHANGED << sub_pc, sub_error, sub_ntasks, sub_raw_limit, parent_approval,
                    task_timeout, child_policy, child_out, child_closed, parent_bus,
                    turn_cancelled >>
    /\ UNCHANGED << chat_vars, mem_vars >>

\* the send_subagent_update / send_subagent_history_item of the loop
\* variant: the assistant messages of the child are not reported
Send_without_progress(t) ==
    /\ task_pc[t] = "send"
    /\ cur_event' = [cur_event EXCEPT ![t] = NoChildEvent]
    /\ IF cur_event[t].kind = "AgentMessage"
       THEN /\ task_pc' = [task_pc EXCEPT ![t] = "recv"]
            /\ UNCHANGED << parent_bus, last_message, task_result, child_alive >>
       ELSE IF cur_event[t].kind = "TaskComplete"
       THEN /\ parent_bus' = send_subagent_history_item(parent_bus, t, t - 1, cur_event[t])
            /\ LoopEnd(t, last_message[t])
       ELSE /\ parent_bus' = send_subagent_history_item(parent_bus, t, t - 1, cur_event[t])
            /\ task_pc' = [task_pc EXCEPT ![t] = "recv"]
            /\ UNCHANGED << last_message, task_result, child_alive >>
    /\ UNCHANGED << sub_pc, sub_error, sub_ntasks, sub_raw_limit, parent_approval,
                    task_timeout, child_policy, child_out, child_read, child_closed,
                    turn_cancelled >>
    /\ UNCHANGED << chat_vars, mem_vars >>

\* the task forwards the event it has read
Send(t) ==
    /\ task_pc[t] = "send"
    /\ cur_event' = [cur_event EXCEPT ![t] = NoChildEvent]
    /\ IF cur_event[t].kind = "AgentMessage"
       THEN /\ parent_bus' = send_subagent_update(parent_bus, t, "Running", cur_event[t].msg)
            /\ task_pc' = [task_pc EXCEPT ![t] = "recv"]
            /\ UNCHANGED << last_message, task_result, child_alive >>
       ELSE IF cur_event[t].kind = "TaskComplete"
       THEN /\ parent_bus' = send_subagent_history_item(parent_bus, t, t - 1, cur_event[t])
            /\ LoopEnd(t, last_message[t])
       ELSE /\ parent_bus' = send_subagent_history_item(parent_bus, t, t - 1, cur_event[t])
            /\ task_pc' = [task_pc EXCEPT ![t] = "recv"]
            /\ UNCHANGED << last_message, task_result, child_alive >>
    /\ UNCHANGED << sub_pc, sub_error, sub_ntasks, sub_raw_limit, parent_approval,
                    task_timeout, child_policy, child_out, child_read, child_closed,
                    turn_cancelled >>
    /\ UNCHANGED << chat_vars, mem_vars >>

\* variant: the deadline of one task ends every task future of the call
Timeout_aborts_siblings(t) ==
    /\ task_pc[t] \in {"spawn", "submit", "recv", "send"}
    /\ task_timeout[t].some
    /\ task_result' = [s \in TaskIds |->
                           IF task_pc[s] \in {"absent", "final", "done"}
                           THEN task_result[s] ELSE "timeout"]
    /\ child_alive' = [s \in TaskIds |-> FALSE]
    /\ cur_event' = [s \in TaskIds |-> NoChildEvent]
    /\ task_pc' = [s \in TaskIds |->
                       IF task_pc[s] \in {"absent", "final", "done"}
                       THEN task_pc[s] ELSE "final"]
    /\ UNCHANGED << sub_pc, sub_error, sub_ntasks, sub_raw_limit, parent_approval,
                    task_timeout, last_message, child_policy, child_out, child_read,
                    child_closed, parent_bus, turn_cancelled >>
    /\ UNCHANGED << chat_vars, mem_vars >>

\* tokio::time::timeout elapses: the inner future is dropped, and its child with it
Timeout(t) ==
    /\ task_pc[t] \in {"spawn", "submit", "recv", "send"}
    /\ task_timeout[t].some
    /\ task_result' = [task_result EXCEPT ![t] = "timeout"]
    /\ child_alive' = [child_alive EXCEPT ![t] = FALSE]
    /\ cur_event' = [cur_event EXCEPT ![t] = NoChildEvent]
    /\ task_pc' = [task_pc EXCEPT ![t] = "final"]
    /\ UNCHANGED << sub_pc, sub_error, sub_ntasks, sub_raw_limit, parent_approval,
                    task_timeout, last_message, child_policy, child_out, child_read,
                    child_closed, parent_bus, turn_cancelled >>
    /\ UNCHANGED << chat_vars, mem_vars >>

\* variant: the final status update is sent twice
Final_twice(t) ==
    /\ task_pc[t] = "final"
    /\ parent_bus' =
           LET update == SubagentTaskUpdate(t, FinalStatus(task_result[t]),
                                            FinalSummary(task_result[t], last_message[t]))
           IN parent_bus \o << update, update >>
    /\ task_pc' = [task_pc EXCEPT ![t] = "done"]
    /\ UNCHANGED << sub_pc, sub_error, sub_ntasks, sub_raw_limit, parent_approval,
                    task_timeout, task_result, last_message, cur_event, child_alive,
                    child_policy, child_out, child_read, child_closed,
                    turn_cancelled >>
    /\ UNCHANGED << chat_vars, mem_vars >>

\* the final status update of run_subagent_task
Final(t) ==
    /\ task_pc[t] = "final"
    /\ parent_bus' = send_subagent_update(parent_bus, t, FinalStatus(task_result[t]),
                                          FinalSummary(task_result[t], last_message[t]))
    /\ task_pc' = [task_pc EXCEPT ![t] = "done"]
    /\ UNCHANGED << sub_pc, sub_error, sub_ntasks, sub_raw_limit, parent_approval,
                    task_timeout, task_result, last_message, cur_event, child_alive,
                    child_policy, child_out, child_read, child_closed,
                    turn_cancelled >>
    /\ UNCHANGED << chat_vars, mem_vars >>

\* join_all has every result; the handler returns its output
Return ==
    /\ sub_pc = "running"
    /\ \A t \in TaskIds : task_pc[t] \in {"done", "absent"}
    /\ sub_pc' = "returned"
    /\ UNCHANGED << sub_error, sub_ntasks, sub_raw_limit, parent_approval, task_pc,
                    task_timeout, task_result, last_message, cur_event, child_alive,
                    child_policy, child_out, child_read, child_closed, parent_bus,
                    turn_cancelled >>
    /\ UNCHANGED << chat_vars, mem_vars >>

\* The parent turn is cancelled.  Cancellation of a running tool handler is
\* cooperative: the handler has to check for it, and a child is killed only
\* when its Codex is dropped.
CancelTurn ==
    /\ sub_pc = "running"
    /\ ~turn_cancelled
    /\ turn_cancelled' = TRUE
    /\ UNCHANGED << sub_pc, sub_error, sub_ntasks, sub_raw_limit, parent_approval,
                    task_pc, task_timeout, task_result, last_message, cur_event,
                    child_alive, child_policy, child_out, child_read, child_closed,
                    parent_bus >>
    /\ UNCHANGED << chat_vars, mem_vars >>

SubNext ==
    \/ Handle
    \/ \E t \in TaskIds : TaskStart(t)
    \/ \E t \in TaskIds : Spawn(t)
    \/ \E t \in TaskIds : Submit(t)
    \/ \E t \in TaskIds : ChildEmit(t)
    \/ \E t \in TaskIds : ChildClose(t)
    \/ \E t \in TaskIds : Recv(t)
    \/ \E t \in TaskIds : Send(t)
    \/ \E t \in TaskIds : Timeout(t)
    \/ \E t \in TaskIds : Final(t)
    \/ Return

\* a call during which the parent turn may be cancelled
SubCancelNext ==
    \/ SubNext
    \/ CancelTurn

(***************************************************************************)
(* Part III - the memory store                                             *)
(***************************************************************************)
\* importance is a fixed-point number and ImportanceUnit stands for 1.0.  The
\* unit is fine enough for every product importance * decay_rate of a
\* behaviour to be exact: a behaviour decays at most MaxStoreOps times, and
\* each decay by 0.95 = 19/20 divides by 20
ImportanceUnit == 100 * 20^MaxStoreOps

\* h/100 as an importance
Hundredths(h) == h * (ImportanceUnit \div 100)

\* an importance no decay has touched, in hundredths
InHundredths(importance) == importance \div (ImportanceUnit \div 100)

MemoryTypes == {"fact", "pattern", "decision", "lesson", "preference", "location"}

MemIds == 1..MaxMemories

\* MemoryType::decays
decays(memory_type) == memory_type \notin {"lesson", "decision"}

\* MemoryType::default_importance, in hundredths
default_importance(memory_type) ==
    CASE memory_type = "lesson" -> 90
      [] memory_type = "decision" -> 85
      [] memory_type = "preference" -> 80
      [] memory_type = "pattern" -> 70
      [] memory_type = "location" -> 60
      [] OTHER -> 50

\* MemoryConfig::default, in hundredths
decay_rate == 95

min_importance_threshold == 10

NoRow ==
    [present |-> FALSE, memory_type |-> "none", content |-> "", context |-> "",
     importance |-> 0, use_count |-> 0, created_at |-> 0, last_used |-> 0]

NoArg == [id |-> 0, memory |-> NoRow]

\* Memory::new at time t
Memory_new(memory_type, content, t) ==
    [present |-> TRUE, memory_type |-> memory_type, content |-> content,
     context |-> "", importance |-> Hundredths(default_importance(memory_type)),
     use_count |-> 0, created_at |-> t, last_used |-> t]

with_context(m, context) == [m EXCEPT !.context = context]

\* Memory::with_importance; the argument is in hundredths
with_importance(m, importance) ==
    [m EXCEPT !.importance = Clamp(Hundredths(importance), 0, ImportanceUnit)]

Min(a, b) == IF a < b THEN a ELSE b

Present(mems) == {id \in DOMAIN mems : mems[id].present}

\* INSERT INTO memories
Sql_insert(mems, id, m) == [mems EXCEPT ![id] = m]

\* UPDATE memories SET use_count = use_count + 1, last_used = ?1,
\*   importance = MIN(1.0, importance + ?2) WHERE id = ?3
Sql_reinforce(mems, id, t, importance_boost) ==
    [i \in DOMAIN mems |->
        IF i = id /\ mems[i].present
        THEN [mems[i] EXCEPT !.use_count = @ + 1,
                             !.last_used = t,
                             !.importance = Min(ImportanceUnit,
                                                @ + Hundredths(importance_boost))]
        ELSE mems[i]]

\* variant: the statement writes the time into created_at
Sql_mark_used_created_at(mems, id, t) ==
    [i \in DOMAIN mems |->
        IF i = id /\ mems[i].present
        THEN [mems[i] EXCEPT !.created_at = t, !.use_count = @ + 1]
        ELSE mems[i]]

\* UPDATE memories SET last_used = ?1, use_count = use_count + 1 WHERE id = ?2
Sql_mark_used(mems, id, t) ==
    [i \in DOMAIN mems |->
        IF i = id /\ mems[i].present
        THEN [mems[i] EXCEPT !.last_used = t, !.use_count = @ + 1]
        ELSE mems[i]]

\* the types named in apply_decay
decaying_types == {"fact", "pattern", "preference", "location"}

\* variant: the statement has no WHERE clause
Sql_apply_decay_every_type(mems) ==
    [i \in DOMAIN mems |->
        IF mems[i].present
        THEN [mems[i] EXCEPT !.importance = (@ * decay_rate) \div 100]
        ELSE mems[i]]

\* UPDATE memories SET importance = importance * ?1 WHERE type IN (...)
Sql_apply_decay(mems) ==
    [i \in DOMAIN mems |->
        IF mems[i].present /\ mems[i].memory_type \in decaying_types
        THEN [mems[i] EXCEPT !.importance = (@ * decay_rate) \div 100]
        ELSE mems[i]]

\* DELETE FROM memories WHERE importance < ?1 AND type NOT IN ('lesson', 'decision')
Sql_prune(mems) ==
    [i \in DOMAIN mems |->
        IF mems[i].present
           /\ mems[i].importance < Hundredths(min_importance_threshold)
           /\ mems[i].memory_type \notin {"lesson", "decision"}
        THEN NoRow
        ELSE mems[i]]

\* DELETE FROM memories WHERE id = ?1
Sql_delete(mems, id) == [mems EXCEPT ![id] = NoRow]

\* the code never sets PRAGMA foreign_keys: the enforcement of the connection
\* is the default of the SQLite library the program was built with, on or off
ForeignKeysDefault ==
    IF foreign_keys = "default" THEN {"on", "off"} ELSE {foreign_keys}

\* FOREIGN KEY ... ON DELETE CASCADE of table relationships; SQLite applies it
\* only on a connection whose foreign-key enforcement is on
Cascade(rels, mems, fk) ==
    IF fk = "on"
    THEN {r \in rels : r.from_id \in Present(mems) /\ r.to_id \in Present(mems)}
    ELSE rels

\* INSERT OR IGNORE INTO relationships: with enforcement on, an endpoint that
\* is no row of memories makes the statement fail
Sql_add_relationship(rels, mems, fk, from_id, to_id, relation) ==
    IF fk = "on" /\ ~(from_id \in Present(mems) /\ to_id \in Present(mems))
    THEN rels
    ELSE rels \cup {[from_id |-> from_id, to_id |-> to_id, relation |-> relation]}

\* SELECT EXISTS(SELECT 1 FROM memories WHERE content = ?1 AND type = ?2)
exists_similar(mems, content, memory_type) ==
    \E i \in Present(mems) :
        mems[i].content = content /\ mems[i].memory_type = memory_type

\* cleanup_orphaned_docs after its lock: the files whose stem is no id
cleanup_orphaned_docs(files, mems) == {f \in files : f \in Present(mems)}

----------------------------------------------------------------------------
\* Part III - the rule-based extractor

\* number of seconds that pass between two calls when time passes
ElapseSecs == 200

\* MemoryExtractor::new
max_failure_age_secs == 300

\* char::is_whitespace, for the characters the inputs have
is_whitespace(c) == c \in {" ", "\t", "\n"}

\* str::split_whitespace: the maximal runs of characters that are not whitespace
RECURSIVE split_from(_, _, _)
split_from(s, i, cur) ==
    IF i > Len(s)
    THEN IF cur = "" THEN <<>> ELSE <<cur>>
    ELSE LET c == SubSeq(s, i, i)
         IN IF is_whitespace(c)
            THEN (IF cur = "" THEN <<>> ELSE <<cur>>) \o split_from(s, i + 1, "")
            ELSE split_from(s, i + 1, cur \o c)

split_whitespace(s) == split_from(s, 1, "")

\* Iterator::take
take(seq, n) == SubSeq(seq, 1, Min(n, Len(seq)))

\* [&str]::join
RECURSIVE join(_, _)
join(parts, sep) ==
    IF parts = <<>> THEN ""
    ELSE IF Len(parts) = 1 THEN parts[1]
    ELSE parts[1] \o sep \o join(Tail(parts), sep)

\* MemoryExtractor::failure_key: the first two words of the command
failure_key(command) == join(take(split_whitespace(command), 2), " ")

\* the commands of the exec calls
ExecCommands == {"npm install", "npm install -g", "cargo build", "npm test", "pnpm test"}

\* failure_key of each command, computed once
failure_key_of == [command \in ExecCommands |-> failure_key(command)]

starts_with(s, prefix) ==
    Len(s) >= Len(prefix) /\ SubSeq(s, 1, Len(prefix)) = prefix

contains(s, sub) ==
    \E i \in 1..(Len(s) - Len(sub) + 1) : SubSeq(s, i, i + Len(sub) - 1) = sub

\* truncate of extractor.rs
truncate(s, max_len) == IF Len(s) <= max_len THEN s ELSE SubSeq(s, 1, max_len)

\* str::trim
RECURSIVE trim_start(_)
trim_start(s) ==
    IF s # "" /\ is_whitespace(SubSeq(s, 1, 1))
    THEN trim_start(SubSeq(s, 2, Len(s)))
    ELSE s

RECURSIVE trim_end(_)
trim_end(s) ==
    IF s # "" /\ is_whitespace(SubSeq(s, Len(s), Len(s)))
    THEN trim_end(SubSeq(s, 1, Len(s) - 1))
    ELSE s

trim(s) == trim_end(trim_start(s))

\* str::to_lowercase, for ASCII
UpperCase == "ABCDEFGHIJKLMNOPQRSTUVWXYZ"

LowerCase == "abcdefghijklmnopqrstuvwxyz"

lower_char(c) ==
    IF \E i \in 1..Len(UpperCase) : SubSeq(UpperCase, i, i) = c
    THEN LET i == CHOOSE i \in 1..Len(UpperCase) : SubSeq(UpperCase, i, i) = c
         IN SubSeq(LowerCase, i, i)
    ELSE c

RECURSIVE to_lowercase(_)
to_lowercase(s) ==
    IF s = "" THEN ""
    ELSE lower_char(SubSeq(s, 1, 1)) \o to_lowercase(SubSeq(s, 2, Len(s)))

\* the type prefixes of parse_user_memory, in its order
TypePrefixes ==
    << [prefix |-> "decision:", memory_type |-> "decision"],
       [prefix |-> "lesson:", memory_type |-> "lesson"],
       [prefix |-> "preference:", memory_type |-> "preference"],
       [prefix |-> "pattern:", memory_type |-> "pattern"],
       [prefix |-> "location:", memory_type |-> "location"] >>

\* MemoryExtractor::parse_user_memory
parse_user_memory(raw) ==
    LET input == trim(raw)
        lower == to_lowercase(input)
        hits == {k \in 1..Len(TypePrefixes) : starts_with(input, TypePrefixes[k].prefix)}
    IN IF hits # {}
       THEN LET k == CHOOSE k \in hits : \A h \in hits : k <= h
                rest == SubSeq(input, Len(TypePrefixes[k].prefix) + 1, Len(input))
            IN [memory_type |-> TypePrefixes[k].memory_type, content |-> trim(rest)]
       ELSE IF contains(lower, "always ") \/ contains(lower, "never ")
               \/ contains(lower, "should ")
            THEN [memory_type |-> "preference", content |-> input]
       ELSE IF contains(lower, "because") \/ contains(lower, "decided")
               \/ contains(lower, "chose")
            THEN [memory_type |-> "decision", content |-> input]
       ELSE IF contains(lower, "learned") \/ contains(lower, "don't forget")
               \/ contains(lower, "remember to")
            THEN [memory_type |-> "lesson", content |-> input]
       ELSE IF contains(lower, " in ")
               /\ (contains(lower, "src/") \/ contains(lower, "lib/"))
            THEN [memory_type |-> "location", content |-> input]
       ELSE [memory_type |-> "fact", content |-> input]

\* an entry of recent_failures, with the key it is stored under
FailedAttempt(key, command, error, timestamp) ==
    [key |-> key, command |-> command, error |-> error, timestamp |-> timestamp]

\* MemoryExtractor::record_failure at time t: the entries of max_failure_age_secs
\* or more are dropped, then the entry of the command's key is set
record_failure(failures, command, error, t) ==
    LET retained == {f \in failures : t - f.timestamp < max_failure_age_secs}
        key == failure_key_of[command]
    IN {f \in retained : f.key # key} \cup {FailedAttempt(key, command, error, t)}

\* the Lesson of check_for_fix
fix_lesson(failed, command, t) ==
    with_importance(
        with_context(
            Memory_new("lesson",
                       "When '" \o truncate(failed.command, 50) \o "' fails with '"
                           \o truncate(failed.error, 100) \o "', try '"
                           \o truncate(command, 50) \o "'",
                       t),
            "Failed command: " \o failed.command \o "\nError: " \o failed.error
                \o "\nFix: " \o command),
        95)

\* variant: the entry is looked up and left in the map
check_for_fix_keeps_entry(failures, command, t) ==
    LET key == failure_key_of[command]
    IN IF \E f \in failures : f.key = key
       THEN LET failed == CHOOSE f \in failures : f.key = key
            IN [failures |-> failures,
                memory |-> <<fix_lesson(failed, command, t)>>]
       ELSE [failures |-> failures, memory |-> <<>>]

\* MemoryExtractor::check_for_fix at time t: the map after it and the Lesson
\* it returns, if any
check_for_fix(failures, command, t) ==
    LET key == failure_key_of[command]
    IN IF \E f \in failures : f.key = key
       THEN LET failed == CHOOSE f \in failures : f.key = key
            IN [failures |-> failures \ {failed},
                memory |-> <<fix_lesson(failed, command, t)>>]
       ELSE [failures |-> failures, memory |-> <<>>]

\* MemoryExtractor::extract_from_success
extract_from_success(mems, command, output, t) ==
    LET pm == Head(split_whitespace(command))
        pm_content == "Project uses " \o pm \o " as package manager"
    IN IF (starts_with(command, "npm ") \/ starts_with(command, "pnpm ")
           \/ starts_with(command, "yarn "))
          /\ ~exists_similar(mems, pm_content, "fact")
       THEN <<with_context(Memory_new("fact", pm_content, t),
                           "detected from running: " \o truncate(command, 50))>>
       ELSE IF starts_with(command, "cargo ")
               /\ ~exists_similar(mems, "Project uses Cargo/Rust", "fact")
            THEN <<Memory_new("fact", "Project uses Cargo/Rust", t)>>
       ELSE IF contains(command, "test")
               /\ (contains(output, "jest") \/ contains(output, "PASS")
                   \/ contains(output, "FAIL"))
               /\ ~exists_similar(mems, "Project uses Jest for testing", "fact")
            THEN <<Memory_new("fact", "Project uses Jest for testing", t)>>
       ELSE IF contains(command, "test")
               /\ (contains(output, "pytest") \/ contains(output, "collected"))
               /\ ~exists_similar(mems, "Project uses pytest for testing", "fact")
            THEN <<Memory_new("fact", "Project uses pytest for testing", t)>>
       ELSE <<>>

\* MemoryExtractor::extract_from_failure
extract_from_failure(command, stderr, t) ==
    LET lesson(content) ==
            <<with_importance(
                  with_context(Memory_new("lesson", content, t),
                               "Error: " \o truncate(stderr, 200)),
                  80)>>
    IN IF contains(stderr, "ENOENT") \/ contains(stderr, "not found")
       THEN lesson("Command '" \o truncate(command, 30)
                       \o "' failed: required binary or file not found")
       ELSE IF contains(stderr, "permission denied")
            THEN lesson("Command '" \o truncate(command, 30)
                            \o "' requires elevated permissions")
       ELSE IF contains(stderr, "ECONNREFUSED") \/ contains(stderr, "connection refused")
            THEN lesson("Command '" \o truncate(command, 30)
                            \o "' failed: service not running or connection refused")
       ELSE <<>>

\* MemoryExtractor::extract_location_from_file, the file given as its path,
\* the directory and the name std::path::Path splits the path into, and its content
extract_location_from_file(file, t) ==
    LET filename == file.file_name
        content == file.content
        purpose ==
            IF contains(filename, "test") \/ contains(content, "#[test]")
               \/ contains(content, "describe(")
            THEN "tests"
            ELSE IF contains(filename, "config") \/ contains(filename, ".toml")
                    \/ contains(filename, ".json")
                 THEN "configuration"
            ELSE IF contains(filename, "route") \/ contains(filename, "handler")
                    \/ contains(content, "Router")
                 THEN "routing/handlers"
            ELSE IF contains(filename, "model")
                    \/ (contains(content, "struct") /\ contains(content, "derive"))
                 THEN "data models"
            ELSE IF contains(filename, "auth") \/ contains(content, "authenticate")
                    \/ contains(content, "login")
                 THEN "authentication"
            ELSE ""
    IN IF purpose = ""
       THEN <<>>
       ELSE <<with_context(
                  Memory_new("location", file.parent \o " contains " \o purpose, t),
                  "detected from " \o filename)>>

\* number of places where sub occurs in s (str::matches(..).count())
matches_count(s, sub) ==
    Cardinality({i \in 1..(Len(s) - Len(sub) + 1) : SubSeq(s, i, i + Len(sub) - 1) = sub})

\* MemoryExtractor::extract_patterns_from_file
extract_patterns_from_file(file, t) ==
    (IF contains(file.path, "__tests__")
     THEN <<Memory_new("pattern", "Tests are in __tests__ directories", t)>>
     ELSE <<>>)
    \o (IF file.extension = "rs" /\ matches_count(file.content, "-> Result<") >= 3
        THEN <<Memory_new("pattern", "Functions return Result<T, E> for error handling", t)>>
        ELSE <<>>)
    \o (IF contains(file.content, "async fn") \/ contains(file.content, "async function")
        THEN <<Memory_new("pattern", "Codebase uses async/await patterns", t)>>
        ELSE <<>>)

\* the memories of ms that exists_similar does not find in the store
not_yet_stored(mems, ms) ==
    SelectSeq(ms, LAMBDA m : ~exists_similar(mems, m.content, m.memory_type))

\* store.insert of each memory of ms in turn, the ids being first_id + 1, ...
RECURSIVE insert_all(_, _, _)
insert_all(mems, ms, first_id) ==
    IF ms = <<>> THEN mems
    ELSE insert_all(Sql_insert(mems, first_id + 1, Head(ms)), Tail(ms), first_id + 1)

\* what a command prints when it succeeds: a test run prints the report of
\* jest
SuccessOutput(command) ==
    IF contains(command, "test") THEN "PASS src/app.test.js" ELSE "added 1 package"

\* the exec completions: each command succeeding, and some of them failing
ExecInputs ==
    {[command |-> command, exit_code |-> 0, stdout |-> SuccessOutput(command),
      stderr |-> ""] : command \in ExecCommands}
    \cup [command : {"npm install", "cargo build"}, exit_code : {1}, stdout : {""},
          stderr : {"boom"}]
    \cup [command : {"npm install", "npm test"}, exit_code : {1}, stdout : {""},
          stderr : {"ENOENT: npm not found"}]

RememberInputs == {"decision: use Axum", " Always use tabs "}

\* parse_user_memory of each input, computed once
ParsedInputs == [input \in RememberInputs |-> parse_user_memory(input)]

Files ==
    { [path |-> "src/auth.rs", parent |-> "src", file_name |-> "auth.rs",
       extension |-> "rs", content |-> "async fn login()"] }

FailureKeys == {failure_key_of[command] : command \in ExecCommands}

NoFailure == [pending |-> FALSE, command |-> "", error |-> "", at |-> 0]

NoCall == [kind |-> "none", command |-> "", exit_code |-> 0]

----------------------------------------------------------------------------
\* Part III - actions of the store

ext_vars == << recent_failures, emitted, last_call, last_exec >>

\* what no function of the store and of the rule-based extractor writes
other_vars == << chat_vars, sub_vars, emb_vars, ret_vars >>

\* the tasks that call on_exec_complete at the same time
ExtractTasks == {1, 2}

\* no call of on_exec_complete by the task yet
NoExtraction == [pc |-> "idle", command |-> "", ms |-> <<>>]

\* before any call of apply_decay
NoDecayRun == [n |-> 0, base |-> [i \in MemIds |-> NoRow]]

\* the memories callers insert: the type, and what they give
\* Memory::with_importance if they call it
InsertChoices ==
    { [memory_type |-> "fact", set |-> FALSE, value |-> 0],
      [memory_type |-> "fact", set |-> TRUE, value |-> 5],
      [memory_type |-> "lesson", set |-> TRUE, value |-> 5],
      [memory_type |-> "decision", set |-> TRUE, value |-> -50],
      [memory_type |-> "preference", set |-> TRUE, value |-> 150] }

\* importance_boost of reinforce; DecayManager::reinforce gives 0.02
BoostValues == {2, -60}

\* no call of the retriever or the injector has been made
NoRetrieval ==
    [call |-> "none", query |-> "", limit |-> 0, semantic |-> [ok |-> TRUE, results |-> <<>>],
     candidates |-> <<>>, returned |-> <<>>, rendered |-> "",
     context |-> [kind |-> "none", text |-> ""], deleted |-> 0]

NoDiverse == [scored |-> <<>>, k |-> 0, result |-> <<>>]

\* MemoryStore::init and MemoryExtractor::new, but for the embedding service
\* and the configuration
StoreInit ==
    /\ memories = [i \in MemIds |-> NoRow]
    /\ relationships = {}
    /\ docs = {}
    /\ conn_lock = "free"
    /\ store_pc = "idle"
    /\ store_caller = "none"
    /\ store_arg = NoArg
    /\ store_last = "none"
    /\ store_deleted = 0
    /\ store_ops = 0
    /\ foreign_keys = "default"
    /\ next_id = 0
    /\ now = 0
    /\ recent_failures = {}
    /\ emitted = <<>>
    /\ last_call = NoCall
    /\ last_exec = [key \in FailureKeys |-> NoFailure]
    /\ embedded = {}
    /\ retrieval = NoRetrieval
    /\ diverse = NoDiverse
    /\ decay_run = NoDecayRun
    /\ extractions = [x \in ExtractTasks |-> NoExtraction]

\* MemoryConfig::default
ConfigDefault ==
    /\ max_retrieval_count = 15
    /\ max_injection_tokens = 2000

\* the embedding model could not be loaded: embedding_service is None
MemInit == StoreInit /\ ConfigDefault /\ embedding_service = FALSE

\* a call of the store starts; caller is who is still inside the call after
\* the step ("none" when the call has returned)
StoreCall(caller) ==
    /\ store_pc = "idle"
    /\ store_ops < MaxStoreOps
    /\ store_ops' = store_ops + 1
    /\ store_caller' = caller
    /\ UNCHANGED << other_vars, ext_vars >>

\* MemoryStore::insert is called with a new Memory; the embedding is computed
InsertCall ==
    /\ StoreCall("store")
    /\ next_id < MaxMemories
    /\ \E c \in InsertChoices :
        LET m0 == Memory_new(c.memory_type, "note", now)
            m == IF c.set THEN with_importance(m0, c.value) ELSE m0
        IN store_arg' = [id |-> next_id + 1, memory |-> m]
    /\ next_id' = next_id + 1
    /\ store_pc' = "insert_embed"
    /\ UNCHANGED << memories, relationships, docs, conn_lock, store_last,
                    store_deleted, foreign_keys, now >>
    /\ UNCHANGED << decay_run, extractions >>

\* self.conn.lock().await is granted: the mutex is free.  insert then executes
\* its INSERT; cleanup_orphaned_docs reads the ids, drops the guard of its
\* block and removes the orphan files.
LockGranted ==
    /\ store_pc \in {"insert_embed", "cleanup_lock"}
    /\ conn_lock = "free"
    /\ IF store_pc = "insert_embed"
       THEN /\ memories' = Sql_insert(memories, store_arg.id, store_arg.memory)
            /\ store_last' = "insert"
            /\ conn_lock' = "insert"
            /\ store_pc' = "insert_doc"
            /\ UNCHANGED << docs, store_caller, store_arg >>
       ELSE /\ docs' = cleanup_orphaned_docs(docs, memories)
            /\ store_pc' = "idle"
            /\ store_caller' = "none"
            /\ store_arg' = NoArg
            /\ UNCHANGED << memories, store_last, conn_lock >>
    /\ UNCHANGED << relationships, store_deleted, store_ops, foreign_keys, next_id,
                    now, other_vars, ext_vars >>
    /\ UNCHANGED << decay_run, extractions >>

\* write_memory_doc of insert completes; insert returns and drops its guard
InsertWriteDoc ==
    /\ store_pc = "insert_doc"
    /\ docs' = docs \cup {store_arg.id}
    /\ conn_lock' = "free"
    /\ store_pc' = "idle"
    /\ store_caller' = "none"
    /\ store_arg' = NoArg
    /\ UNCHANGED << memories, relationships, store_last, store_deleted, store_ops,
                    foreign_keys, next_id, now, other_vars, ext_vars >>
    /\ UNCHANGED << decay_run, extractions >>

\* MemoryStore::delete (MemoryManager::forget): the lock and the DELETE; it
\* returns at once, dropping its guard, when no row was deleted
Delete ==
    /\ store_pc = "idle"
    /\ conn_lock = "free"
    /\ \E id \in MemIds :
        LET deleted == IF memories[id].present THEN 1 ELSE 0
            mems == Sql_delete(memories, id)
        IN /\ StoreCall(IF deleted > 0 THEN "store" ELSE "none")
           /\ memories' = mems
           /\ \E fk \in ForeignKeysDefault :
                  /\ foreign_keys' = fk
                  /\ relationships' = Cascade(relationships, mems, fk)
           /\ store_deleted' = deleted
           /\ store_arg' = IF deleted > 0 THEN [id |-> id, memory |-> NoRow]
                           ELSE NoArg
           /\ store_pc' = IF deleted > 0 THEN "delete_doc" ELSE "idle"
           /\ conn_lock' = IF deleted > 0 THEN "delete" ELSE "free"
    /\ store_last' = "delete"
    /\ UNCHANGED << docs, next_id, now >>
    /\ UNCHANGED << decay_run, extractions >>

\* tokio::fs::remove_file of delete completes; delete returns and drops its guard
DeleteRemoveDoc ==
    /\ store_pc = "delete_doc"
    /\ docs' = docs \ {store_arg.id}
    /\ conn_lock' = "free"
    /\ store_pc' = "idle"
    /\ store_caller' = "none"
    /\ store_arg' = NoArg
    /\ UNCHANGED << memories, relationships, store_last, store_deleted, store_ops,
                    foreign_keys, next_id, now, other_vars, ext_vars >>
    /\ UNCHANGED << decay_run, extractions >>

\* MemoryStore::reinforce: the lock, the UPDATE and the return, with no await
\* between them
Reinforce ==
    /\ StoreCall("none")
    /\ conn_lock = "free"
    /\ \E id \in MemIds, importance_boost \in BoostValues :
        memories' = Sql_reinforce(memories, id, now, importance_boost)
    /\ store_last' = "reinforce"
    /\ UNCHANGED << relationships, docs, conn_lock, store_pc, store_arg, store_deleted,
                    foreign_keys, next_id, now >>
    /\ UNCHANGED << decay_run, extractions >>

\* MemoryStore::mark_used
MarkUsed ==
    /\ StoreCall("none")
    /\ conn_lock = "free"
    /\ \E id \in MemIds : memories' = Sql_mark_used(memories, id, now)
    /\ store_last' = "mark_used"
    /\ UNCHANGED << relationships, docs, conn_lock, store_pc, store_arg, store_deleted,
                    foreign_keys, next_id, now >>
    /\ UNCHANGED << decay_run, extractions >>

\* MemoryStore::add_relationship
AddRelationship ==
    /\ StoreCall("none")
    /\ conn_lock = "free"
    /\ \E from_id \in MemIds, to_id \in MemIds, fk \in ForeignKeysDefault :
        /\ foreign_keys' = fk
        /\ relationships' = Sql_add_relationship(relationships, memories, fk,
                                                 from_id, to_id, "related")
    /\ store_last' = "add_relationship"
    /\ UNCHANGED << memories, docs, conn_lock, store_pc, store_arg, store_deleted,
                    next_id, now >>
    /\ UNCHANGED << decay_run, extractions >>

\* the calls of apply_decay are counted, and the table before the first is kept
DecayRun(run, mems) ==
    [n |-> run.n + 1, base |-> IF run.n = 0 THEN mems ELSE run.base]

\* variant: a decayed importance stops at min_importance_threshold
ApplyDecay_floored ==
    /\ \E caller \in {"store", "decay", "init"} :
        /\ StoreCall(IF caller = "store" THEN "none" ELSE caller)
        /\ store_pc' = IF caller = "store" THEN "idle" ELSE "prune_call"
    /\ conn_lock = "free"
    /\ memories' = [i \in MemIds |->
                       LET decayed == Sql_apply_decay(memories)[i]
                       IN IF decayed.importance
                              < Hundredths(min_importance_threshold)
                             /\ decayed # memories[i]
                          THEN [decayed EXCEPT !.importance =
                                    Hundredths(min_importance_threshold)]
                          ELSE decayed]
    /\ store_last' = "apply_decay"
    /\ decay_run' = DecayRun(decay_run, memories)
    /\ UNCHANGED extractions
    /\ UNCHANGED << relationships, docs, conn_lock, store_arg, store_deleted,
                    foreign_keys, next_id, now >>

\* MemoryStore::apply_decay, called directly or as the first statement of
\* DecayManager::apply_decay, itself called by MemoryManager::init; its guard
\* is dropped when it returns, and DecayManager::apply_decay goes on to
\* prune_low_importance
ApplyDecay ==
    /\ \E caller \in {"store", "decay", "init"} :
        /\ StoreCall(IF caller = "store" THEN "none" ELSE caller)
        /\ store_pc' = IF caller = "store" THEN "idle" ELSE "prune_call"
    /\ conn_lock = "free"
    /\ memories' = Sql_apply_decay(memories)
    /\ store_last' = "apply_decay"
    /\ decay_run' = DecayRun(decay_run, memories)
    /\ UNCHANGED extractions
    /\ UNCHANGED << relationships, docs, conn_lock, store_arg, store_deleted,
                    foreign_keys, next_id, now >>

\* MemoryStore::prune_low_importance is called directly
PruneCall ==
    /\ StoreCall("store")
    /\ store_pc' = "prune_call"
    /\ UNCHANGED << memories, relationships, docs, conn_lock, store_arg, store_last,
                    store_deleted, foreign_keys, next_id, now >>
    /\ UNCHANGED << decay_run, extractions >>

\* prune_low_importance: the lock and the DELETE; when rows were deleted it
\* goes on to cleanup_orphaned_docs with its guard alive
PruneSql ==
    /\ store_pc = "prune_call"
    /\ conn_lock = "free"
    /\ LET mems == Sql_prune(memories)
           deleted == Cardinality(Present(memories)) - Cardinality(Present(mems))
       IN /\ memories' = mems
          /\ \E fk \in ForeignKeysDefault :
                 /\ foreign_keys' = fk
                 /\ relationships' = Cascade(relationships, mems, fk)
          /\ store_deleted' = deleted
          /\ store_pc' = IF deleted > 0 THEN "cleanup_lock" ELSE "idle"
          /\ conn_lock' = IF deleted > 0 THEN "prune_low_importance" ELSE "free"
          /\ store_caller' = IF deleted > 0 THEN store_caller ELSE "none"
    /\ store_last' = "prune"
    /\ UNCHANGED << docs, store_arg, store_ops, next_id, now, other_vars,
                    ext_vars >>
    /\ UNCHANGED << decay_run, extractions >>

\* time passes
Tick ==
    /\ now < MaxNow
    /\ now' = now + 1
    /\ UNCHANGED << memories, relationships, docs, conn_lock, store_pc, store_caller,
                    store_arg, store_last, store_deleted, store_ops, foreign_keys,
                    next_id, other_vars, ext_vars >>
    /\ UNCHANGED << decay_run, extractions >>

StoreNext ==
    \/ InsertCall
    \/ LockGranted
    \/ InsertWriteDoc
    \/ Delete
    \/ DeleteRemoveDoc
    \/ Reinforce
    \/ MarkUsed
    \/ AddRelationship
    \/ ApplyDecay
    \/ PruneCall
    \/ PruneSql
    \/ Tick

----------------------------------------------------------------------------
\* Part III - actions of the extractor

\* no call of the store or of the extractor is in progress, and one more may
\* be made
ExtractorIdle ==
    /\ store_pc = "idle"
    /\ conn_lock = "free"
    /\ store_ops < MaxStoreOps

\* a call of the extractor runs to its end: it returns the memories `returned`
\* and has inserted the memories ms, each by MemoryStore::insert (the row and
\* its docs file)
ExtractorCall(ms, returned) ==
    /\ next_id + Len(ms) <= MaxMemories
    /\ store_ops' = store_ops + 1
    /\ memories' = insert_all(memories, ms, next_id)
    /\ docs' = docs \cup {next_id + k : k \in 1..Len(ms)}
    /\ next_id' = next_id + Len(ms)
    /\ store_last' = IF ms = <<>> THEN store_last ELSE "insert"
    /\ emitted' = returned
    /\ UNCHANGED << relationships, conn_lock, store_pc, store_caller, store_arg,
                    store_deleted, foreign_keys, now, other_vars >>
    /\ UNCHANGED << decay_run, extractions >>

\* MemoryExtractor::on_exec_complete
on_exec_complete ==
    /\ ExtractorIdle
    /\ \E in \in ExecInputs :
        \E key \in {failure_key_of[in.command]},
           fix \in {check_for_fix(recent_failures, in.command, now)} :
        \E ms \in {IF in.exit_code = 0
                   THEN fix.memory
                        \o extract_from_success(memories, in.command, in.stdout, now)
                   ELSE extract_from_failure(in.command, in.stderr, now)} :
           /\ ExtractorCall(ms, ms)
           /\ recent_failures' =
                  IF in.exit_code = 0
                  THEN fix.failures
                  ELSE record_failure(recent_failures, in.command, in.stderr, now)
           /\ last_call' = [kind |-> "exec", command |-> in.command,
                            exit_code |-> in.exit_code]
           /\ last_exec' =
                  [last_exec EXCEPT ![key] =
                      IF in.exit_code = 0
                      THEN NoFailure
                      ELSE [pending |-> TRUE, command |-> in.command,
                            error |-> in.stderr, at |-> now]]

\* MemoryExtractor::on_file_read
on_file_read ==
    /\ ExtractorIdle
    /\ \E file \in Files :
        \E ms \in {not_yet_stored(memories, extract_location_from_file(file, now))
                   \o not_yet_stored(memories, extract_patterns_from_file(file, now))} :
           /\ ExtractorCall(ms, ms)
           /\ last_call' = [kind |-> "file_read", command |-> file.path, exit_code |-> 0]
           /\ UNCHANGED << recent_failures, last_exec >>

\* MemoryExtractor::on_file_edit
on_file_edit ==
    /\ ExtractorIdle
    /\ \E file \in Files :
        \E ms \in {not_yet_stored(memories,
                       <<with_context(
                             Memory_new("location", file.path \o " was edited", now),
                             "from file edit")>>)} :
           /\ ExtractorCall(ms, ms)
           /\ last_call' = [kind |-> "file_edit", command |-> file.path, exit_code |-> 0]
           /\ UNCHANGED << recent_failures, last_exec >>

\* MemoryExtractor::on_user_remember (MemoryManager::remember)
on_user_remember ==
    /\ ExtractorIdle
    /\ \E input \in RememberInputs :
        \E parsed \in {ParsedInputs[input]} :
        \E memory \in {with_importance(
                           with_context(
                               Memory_new(parsed.memory_type, parsed.content, now),
                               "explicitly remembered by user"),
                           90)} :
           /\ ExtractorCall(<<memory>>, <<memory>>)
           /\ last_call' = [kind |-> "remember", command |-> input, exit_code |-> 0]
           /\ UNCHANGED << recent_failures, last_exec >>

\* MemoryExtractor::on_user_correction
on_user_correction ==
    /\ ExtractorIdle
    /\ \E original \in {"tabs"}, correction \in {"spaces"} :
        \E memory \in {with_importance(
                           with_context(
                               Memory_new("preference",
                                          "User corrected: '" \o truncate(original, 100)
                                              \o "' should be '"
                                              \o truncate(correction, 100) \o "'",
                                          now),
                               "Original: " \o original),
                           85)} :
           /\ ExtractorCall(<<memory>>, <<memory>>)
           /\ last_call' = [kind |-> "correction", command |-> original, exit_code |-> 0]
           /\ UNCHANGED << recent_failures, last_exec >>

\* time passes between two calls
Elapse ==
    /\ store_pc = "idle"
    /\ now < MaxElapses * ElapseSecs
    /\ now' = now + ElapseSecs
    /\ UNCHANGED << memories, relationships, docs, conn_lock, store_pc, store_caller,
                    store_arg, store_last, store_deleted, store_ops, foreign_keys,
                    next_id, other_vars, ext_vars >>
    /\ UNCHANGED << decay_run, extractions >>

ExtractNext ==
    \/ on_exec_complete
    \/ on_file_read
    \/ on_file_edit
    \/ on_user_remember
    \/ on_user_correction
    \/ Elapse

----------------------------------------------------------------------------
\* Part III - on_exec_complete called by two tasks at once.  The extractor is
\* shared (Arc<MemoryExtractor>, &self); a call gives way to the other at each
\* await.  The events are successes and no failure is on record, so that
\* check_for_fix returns None.

\* the frame of a step of on_exec_complete by task x
ExtractionStep(x, from, to, command, ms) ==
    /\ extractions[x].pc \in from
    /\ store_pc = "idle"
    /\ conn_lock = "free"
    /\ extractions' = [extractions EXCEPT ![x] = [pc |-> to, command |-> command, ms |-> ms]]
    /\ UNCHANGED << relationships, conn_lock, store_pc, store_caller, store_arg,
                    store_deleted, foreign_keys, now, ext_vars, other_vars, decay_run >>

\* task x calls on_exec_complete with a command that succeeded
ExecStart(x) ==
    /\ store_ops < MaxStoreOps
    /\ \E command \in ExecCommands :
           ExtractionStep(x, {"idle", "returned"}, "check", command, <<>>)
    /\ store_ops' = store_ops + 1
    /\ UNCHANGED << memories, docs, next_id, store_last >>

\* extract_from_success of task x: its exists_similar takes the lock, reads
\* and gives the lock back
ExecCheck(x) ==
    /\ \E ms \in {extract_from_success(memories, extractions[x].command,
                                        SuccessOutput(extractions[x].command), now)} :
           ExtractionStep(x, {"check"}, "insert", extractions[x].command, ms)
    /\ UNCHANGED << memories, docs, next_id, store_last, store_ops >>

\* variant: the check is made again under the lock of the insert
ExecInsert_checked(x) ==
    /\ \E ms \in {not_yet_stored(memories, extractions[x].ms)} :
           /\ next_id + Len(ms) <= MaxMemories
           /\ ExtractionStep(x, {"insert"}, "returned", extractions[x].command, ms)
           /\ memories' = insert_all(memories, ms, next_id)
           /\ docs' = docs \cup {next_id + k : k \in 1..Len(ms)}
           /\ next_id' = next_id + Len(ms)
           /\ store_last' = IF ms = <<>> THEN store_last ELSE "insert"
    /\ UNCHANGED store_ops

\* the loop of store.insert of task x, and the return of on_exec_complete
ExecInsert(x) ==
    /\ \E ms \in {extractions[x].ms} :
           /\ next_id + Len(ms) <= MaxMemories
           /\ ExtractionStep(x, {"insert"}, "returned", extractions[x].command, ms)
           /\ memories' = insert_all(memories, ms, next_id)
           /\ docs' = docs \cup {next_id + k : k \in 1..Len(ms)}
           /\ next_id' = next_id + Len(ms)
           /\ store_last' = IF ms = <<>> THEN store_last ELSE "insert"
    /\ UNCHANGED store_ops

ExtractRaceNext ==
    \/ \E x \in ExtractTasks : ExecStart(x)
    \/ \E x \in ExtractTasks : ExecCheck(x)
    \/ \E x \in ExtractTasks : ExecInsert(x)

----------------------------------------------------------------------------
\* Part IV - the LLM extractor (llm_extractor.rs)

\* MEMORY_EXTRACTION_TIMEOUT, in seconds
MEMORY_EXTRACTION_TIMEOUT == 30

\* threshold of the duplicate check of extract_from_turn, in hundredths
DuplicateThreshold == 85

\* the JSON documents the extraction model answers with.  An item is the
\* object of its fields; importance is in hundredths.
JsonLesson ==
    [memories |-> << [type |-> "lesson", content |-> "mock Redis", importance |-> 90] >>]

JsonTwoFacts ==
    [memories |-> << [type |-> "Fact", content |-> "uses Jest"],
                     [type |-> "todo", content |-> "uses Jest", context |-> "ci",
                      importance |-> 150] >>]

JsonSimilarLesson ==
    [memories |-> << [type |-> "lesson", content |-> "mock redis"] >>]

JsonNoMemories == [note |-> "nothing"]

JsonNoType == [memories |-> << [content |-> "uses Jest"] >>]

\* the text of the last output item: a JSON document or a text that is none
LlmTexts ==
    { [valid |-> FALSE, value |-> JsonNoMemories] }
    \cup { [valid |-> TRUE, value |-> v] :
              v \in {JsonLesson, JsonTwoFacts, JsonSimilarLesson, JsonNoMemories,
                     JsonNoType} }

\* what client.stream delivers and the seconds it takes: an error, no output
\* item with a text, or the text of the last one
StreamInputs ==
    { [secs |-> 10, result |-> [kind |-> "error"]],
      [secs |-> 10, result |-> [kind |-> "none"]],
      [secs |-> 40, result |-> [kind |-> "text",
                                text |-> [valid |-> TRUE, value |-> JsonLesson]]] }
    \cup { [secs |-> 10, result |-> [kind |-> "text", text |-> text]] : text \in LlmTexts }

ExtractionErr == [ok |-> FALSE, memories |-> <<>>]

\* Deserialize of ExtractedMemory: type and content are required, context and
\* importance default to None (the empty sequence)
ExtractedMemory(item) ==
    [memory_type |-> item.type,
     content |-> item.content,
     context |-> IF "context" \in DOMAIN item THEN <<item.context>> ELSE <<>>,
     importance |-> IF "importance" \in DOMAIN item THEN <<item.importance>> ELSE <<>>]

\* serde_json::from_str::<ExtractionResponse>: memories defaults to empty
from_str(text) ==
    IF ~text.valid THEN ExtractionErr
    ELSE IF "memories" \notin DOMAIN text.value THEN [ok |-> TRUE, memories |-> <<>>]
    ELSE LET items == text.value.memories
         IN IF \E k \in 1..Len(items) : ~({"type", "content"} \subseteq DOMAIN items[k])
            THEN ExtractionErr
            ELSE [ok |-> TRUE,
                  memories |-> [k \in 1..Len(items) |-> ExtractedMemory(items[k])]]

\* variant: the deadline is not applied
call_extraction_model_no_deadline(stream) ==
    IF stream.result.kind = "text"
    THEN from_str(stream.result.text)
    ELSE ExtractionErr

\* LlmMemoryExtractor::call_extraction_model
call_extraction_model(stream) ==
    IF stream.secs >= MEMORY_EXTRACTION_TIMEOUT THEN ExtractionErr
    ELSE IF stream.result.kind = "text"
    THEN from_str(stream.result.text)
    ELSE ExtractionErr

\* the match of extract_from_turn on the lowercased type
llm_memory_type(type) ==
    LET t == to_lowercase(type)
    IN IF t \in MemoryTypes THEN t ELSE "fact"

\* EmbeddingService::cosine_similarity of the embeddings of two texts, in
\* hundredths: the embedding is a function of the text
Similarity(a, b) ==
    IF a = b THEN 100
    ELSE IF {a, b} = {"mock Redis", "mock redis"} THEN 90
    ELSE 30

\* MemoryStore::exists_semantically_similar; embed_ok is whether svc.embed
\* of the content succeeds
exists_semantically_similar(mems, emb, service, content, memory_type, threshold, embed_ok) ==
    IF ~service THEN [ok |-> TRUE, value |-> exists_similar(mems, content, memory_type)]
    ELSE IF ~embed_ok THEN [ok |-> FALSE, value |-> FALSE]
    ELSE [ok |-> TRUE,
          value |-> \E i \in Present(mems) \cap emb :
                        /\ mems[i].memory_type = memory_type
                        /\ Similarity(content, mems[i].content) >= threshold]

\* the loop of extract_from_turn over the extracted items at time t; oks are
\* the outcomes of the calls of svc.embed, two for an item (the duplicate
\* check, then MemoryStore::insert)
RECURSIVE store_extracted(_, _, _, _, _, _, _, _)
store_extracted(extracted, mems, emb, service, last_id, oks, t, stored) ==
    IF extracted = <<>>
    THEN [memories |-> mems, embedded |-> emb, next_id |-> last_id, stored |-> stored]
    ELSE LET em == Head(extracted)
             memory_type == llm_memory_type(em.memory_type)
             found == exists_semantically_similar(mems, emb, service, em.content,
                                                  memory_type, DuplicateThreshold, oks[1])
             is_duplicate == IF found.ok THEN found.value ELSE FALSE
             m0 == Memory_new(memory_type, em.content, t)
             m1 == IF em.context # <<>> THEN with_context(m0, em.context[1]) ELSE m0
             memory == IF em.importance # <<>>
                       THEN with_importance(m1, em.importance[1]) ELSE m1
             rest == SubSeq(oks, 3, Len(oks))
         IN IF is_duplicate
            THEN store_extracted(Tail(extracted), mems, emb, service, last_id, rest, t,
                                 stored)
            ELSE store_extracted(Tail(extracted),
                                 Sql_insert(mems, last_id + 1, memory),
                                 IF service /\ oks[2] THEN emb \cup {last_id + 1} ELSE emb,
                                 service, last_id + 1, rest, t, Append(stored, memory))

\* the outcomes of svc.embed during one call: every call succeeds when there
\* is no service to call
EmbedOutcomes ==
    IF embedding_service THEN [1..4 -> BOOLEAN] ELSE {[k \in 1..4 |-> TRUE]}

\* LlmMemoryExtractor::extract_from_turn (MemoryManager::on_turn_complete)
extract_from_turn ==
    /\ ExtractorIdle
    /\ \E stream \in StreamInputs, oks \in EmbedOutcomes :
        \E response \in {call_extraction_model(stream)} :
        \E res \in {IF response.ok
                    THEN store_extracted(response.memories, memories, embedded,
                                         embedding_service, next_id, oks, now, <<>>)
                    ELSE [memories |-> memories, embedded |-> embedded,
                          next_id |-> next_id, stored |-> <<>>]} :
           /\ res.next_id <= MaxMemories
           /\ memories' = res.memories
           /\ embedded' = res.embedded
           /\ docs' = docs \cup ((next_id + 1)..res.next_id)
           /\ next_id' = res.next_id
           /\ store_last' = IF res.stored = <<>> THEN store_last ELSE "insert"
           /\ emitted' = res.stored
           /\ last_call' = [kind |-> "turn", command |-> stream,
                            exit_code |-> IF response.ok THEN 0 ELSE 1]
    /\ store_ops' = store_ops + 1
    /\ UNCHANGED << relationships, conn_lock, store_pc, store_caller, store_arg,
                    store_deleted, foreign_keys, now, recent_failures, last_exec,
                    embedding_service, ret_vars, chat_vars, sub_vars >>
    /\ UNCHANGED << decay_run, extractions >>

LlmNext ==
    \/ extract_from_turn
    \/ Elapse

----------------------------------------------------------------------------
\* Part V - the plan-first workflow of the chat widget

\* the plan state of the widget as one value
Plan ==
    [enabled |-> plan_mode_enabled, workflow |-> plan_workflow,
     feedback_pending |-> plan_feedback_pending, popup |-> plan_popup]

\* the widget and its plan state after a handler
WidgetPlan(w, p) == [w |-> w, p |-> p]

PlanWorkflow_new(request) ==
    [some |-> TRUE, request |-> request, status |-> "AwaitingPlan",
     last_plan |-> FALSE, extra_feedback |-> <<>>]

\* plan_prompt_instructions, as one line
PlanPromptInstructions == "plan-first workflow: use the update_plan tool only"

submit_op(w, op) == [w EXCEPT !.codex_op_tx = Append(w.codex_op_tx, Op(op, <<>>, FALSE))]

add_info_message(w) == add_to_history(w, Cell("info"))

plan_review_pending(p) == p.workflow.some /\ p.workflow.status = "AwaitingApproval"

open_plan_review_popup(p) ==
    IF p.workflow.some /\ p.workflow.last_plan THEN [p EXCEPT !.popup = TRUE] ELSE p

on_plan_update(w, p) ==
    IF p.workflow.some
    THEN LET p1 == [p EXCEPT !.workflow.last_plan = TRUE]
         IN IF p1.workflow.status = "AwaitingPlan"
            THEN WidgetPlan(
                     add_to_history(add_info_message(submit_op(w, "Interrupt")),
                                    Cell("plan")),
                     open_plan_review_popup(
                         [p1 EXCEPT !.workflow.status = "AwaitingApproval"]))
            ELSE WidgetPlan(add_to_history(w, Cell("plan")), open_plan_review_popup(p1))
    ELSE WidgetPlan(add_to_history(w, Cell("plan")), p)

\* the text is the instructions, "Goal:" and the request; the request stays
\* the text that is displayed
decorate_plan_submission(m) ==
    [text |-> <<PlanPromptInstructions, "Goal:">>
                 \o (IF m.text = <<>> THEN <<"(no detailed goal provided)">> ELSE m.text),
     display_text |-> m.text,
     images |-> m.images]

start_plan_request(w, p, m) ==
    WidgetPlan(add_info_message(submit_user_message(w, decorate_plan_submission(m))),
               [p EXCEPT !.workflow = PlanWorkflow_new(m), !.feedback_pending = FALSE])

handle_plan_feedback_submission(w, p, m) ==
    IF m.images THEN WidgetPlan(add_to_history(w, Cell("error")), p)
    ELSE IF m.text = <<>> THEN WidgetPlan(add_to_history(w, Cell("error")), p)
    ELSE IF ~p.workflow.some THEN WidgetPlan(w, [p EXCEPT !.feedback_pending = FALSE])
    ELSE WidgetPlan(
             add_info_message(
                 submit_user_message(
                     w,
                     UserMessage(<<"Plan feedback:">> \o m.text
                                     \o <<"Please revise the plan and wait for approval.">>,
                                 FALSE))),
             [p EXCEPT !.workflow.extra_feedback = Append(@, m.text),
                       !.workflow.status = "AwaitingPlan",
                       !.feedback_pending = FALSE])

\* handle_plan_submission: whether it took the message, and the state after it
handle_plan_submission(w, p, m) ==
    IF p.feedback_pending
    THEN [taken |-> TRUE, after |-> handle_plan_feedback_submission(w, p, m)]
    ELSE IF ~p.enabled THEN [taken |-> FALSE, after |-> WidgetPlan(w, p)]
    ELSE IF ~p.workflow.some
    THEN [taken |-> TRUE, after |-> start_plan_request(w, p, m)]
    ELSE [taken |-> TRUE, after |-> WidgetPlan(add_info_message(w), p)]

\* queue_user_message, whatever the plan mode
queue_user_message_with_plan(w, p, m) ==
    LET r == handle_plan_submission(w, p, m)
    IN IF r.taken THEN r.after ELSE WidgetPlan(queue_user_message(w, m), p)

\* the lines execute_plan_request adds for the feedback entries
RECURSIVE Guidance(_)
Guidance(entries) ==
    IF entries = <<>> THEN <<>>
    ELSE <<"* ">> \o Head(entries) \o NL \o Guidance(Tail(entries))

execute_plan_request(w, p) ==
    IF ~p.workflow.some THEN WidgetPlan(add_info_message(w), p)
    ELSE LET workflow == p.workflow
             final_text ==
                 workflow.request.text
                 \o (IF workflow.extra_feedback # <<>>
                     THEN <<"Additional guidance from planning:">>
                          \o Guidance(workflow.extra_feedback)
                     ELSE <<>>)
                 \o <<"Plan approved - execute these steps.">>
         IN WidgetPlan(
                add_info_message(
                    submit_user_message(w, [workflow.request EXCEPT !.text = final_text])),
                [p EXCEPT !.workflow = NoWorkflow, !.feedback_pending = FALSE])

prepare_plan_feedback(w, p) ==
    IF ~plan_review_pending(p) THEN WidgetPlan(add_info_message(w), p)
    ELSE WidgetPlan([w EXCEPT !.composer_text = <<>>], [p EXCEPT !.feedback_pending = TRUE])

\* variant: cancelling leaves plan_feedback_pending as it is
cancel_plan_workflow_keeps_flag(w, p) ==
    IF p.workflow.some
    THEN LET w1 == IF p.workflow.status = "AwaitingPlan" THEN submit_op(w, "Interrupt")
                   ELSE w
         IN WidgetPlan(add_info_message(w1), [p EXCEPT !.workflow = NoWorkflow])
    ELSE WidgetPlan(w, p)

cancel_plan_workflow(w, p) ==
    IF p.workflow.some
    THEN LET w1 == IF p.workflow.status = "AwaitingPlan" THEN submit_op(w, "Interrupt")
                   ELSE w
         IN WidgetPlan(add_info_message(w1),
                       [p EXCEPT !.workflow = NoWorkflow, !.feedback_pending = FALSE])
    ELSE WidgetPlan(w, p)

set_plan_mode(w, p, enabled) ==
    IF p.enabled = enabled
    THEN WidgetPlan(w, IF enabled /\ plan_review_pending(p)
                       THEN open_plan_review_popup(p) ELSE p)
    ELSE IF enabled THEN WidgetPlan(w, [p EXCEPT !.enabled = TRUE])
    ELSE cancel_plan_workflow(w, [p EXCEPT !.enabled = FALSE])

toggle_plan_mode(w, p) == set_plan_mode(w, p, ~p.enabled)

----------------------------------------------------------------------------
\* Part V - actions: the keys, the plan updates of the engine and the actions
\* of the plan review popup

PlanStep(name, after) ==
    /\ chat_steps < MaxChatSteps
    /\ chat_steps' = chat_steps + 1
    /\ last_event' = name
    /\ SetWidget(after.w)
    /\ plan_mode_enabled' = after.p.enabled
    /\ plan_workflow' = after.p.workflow
    /\ plan_feedback_pending' = after.p.feedback_pending
    /\ plan_popup' = after.p.popup
    /\ UNCHANGED << delivered, sub_vars, mem_vars >>

\* handle_key_event, InputResult::Submitted, the composer being the active view
PlanKeySubmit ==
    /\ composer_text = <<>>
    /\ ~plan_popup
    /\ \E m \in Msgs : PlanStep("KeySubmit", queue_user_message_with_plan(Widget, Plan, m))

\* handle_key_event, BackTab
KeyBackTab ==
    /\ chat_steps < MaxChatSteps
    /\ PlanStep("BackTab", toggle_plan_mode(Widget, Plan))

\* EventMsg::PlanUpdate
PlanUpdate ==
    /\ chat_steps < MaxChatSteps
    /\ PlanStep("PlanUpdate", on_plan_update(Widget, Plan))

\* PlanReviewAction::Execute: Enter in the popup, which completes
PlanReviewExecute ==
    /\ plan_popup
    /\ PlanStep("Execute", execute_plan_request(Widget, [Plan EXCEPT !.popup = FALSE]))

\* PlanReviewAction::Feedback
PlanReviewFeedback ==
    /\ plan_popup
    /\ PlanStep("Feedback", prepare_plan_feedback(Widget, [Plan EXCEPT !.popup = FALSE]))

\* PlanReviewAction::Cancel
PlanReviewCancel ==
    /\ plan_popup
    /\ PlanStep("Cancel", cancel_plan_workflow(Widget, [Plan EXCEPT !.popup = FALSE]))

PlanNext ==
    \/ TaskStarted
    \/ TaskComplete
    \/ TurnAborted
    \/ PlanKeySubmit
    \/ KeyBackTab
    \/ PlanUpdate
    \/ PlanReviewExecute
    \/ PlanReviewFeedback
    \/ PlanReviewCancel

----------------------------------------------------------------------------
\* Part VI - the retriever (retriever.rs) and the injector (injector.rs)

Max(a, b) == IF a > b THEN a ELSE b

\* a stable sort by the field key, largest first (sort_by with b.cmp(a))
sort_desc(seq) ==
    LET place(i) == Cardinality({j \in 1..Len(seq) :
                                    \/ seq[j].key > seq[i].key
                                    \/ seq[j].key = seq[i].key /\ j < i}) + 1
    IN [r \in 1..Len(seq) |-> seq[CHOOSE i \in 1..Len(seq) : place(i) = r]]

\* the ids of a set of rows in the order of a SELECT: by key, largest first,
\* and by rowid within one key
Ordered(ids, key(_)) ==
    LET byid == [k \in 1..Cardinality(ids) |->
                    CHOOSE i \in ids : Cardinality({j \in ids : j < i}) = k - 1]
        sorted == sort_desc([k \in 1..Cardinality(ids) |->
                                [id |-> byid[k], key |-> key(byid[k])]])
    IN [k \in 1..Len(sorted) |-> sorted[k].id]

stop_words ==
    {"the", "a", "an", "is", "are", "was", "were", "be", "been", "being", "have", "has",
     "had", "do", "does", "did", "will", "would", "could", "should", "may", "might", "must",
     "shall", "can", "need", "dare", "to", "of", "in", "for", "on", "with", "at", "by",
     "from", "as", "into", "through", "during", "before", "after", "above", "below",
     "between", "under", "again", "further", "then", "once", "here", "there", "when",
     "where", "why", "how", "all", "each", "few", "more", "most", "other", "some", "such",
     "no", "nor", "not", "only", "own", "same", "so", "than", "too", "very", "just", "and",
     "but", "or", "if", "because", "until", "while", "this", "that", "these", "those",
     "what", "which", "who", "whom", "it", "its", "i", "me", "my", "we", "our", "you",
     "your", "he", "his", "she", "her", "they"}

Digits == "0123456789"

\* char::is_alphanumeric, for ASCII
is_alphanumeric(c) ==
    \E s \in {UpperCase, LowerCase, Digits} : \E i \in 1..Len(s) : SubSeq(s, i, i) = c

\* str::trim_matches(|c| !c.is_alphanumeric())
RECURSIVE trim_matches(_)
trim_matches(w) ==
    IF w = "" THEN ""
    ELSE IF ~is_alphanumeric(SubSeq(w, 1, 1)) THEN trim_matches(SubSeq(w, 2, Len(w)))
    ELSE IF ~is_alphanumeric(SubSeq(w, Len(w), Len(w)))
    THEN trim_matches(SubSeq(w, 1, Len(w) - 1))
    ELSE w

\* MemoryRetriever::extract_keywords
extract_keywords(query) ==
    LET words == split_whitespace(query)
        lower == [k \in 1..Len(words) |-> to_lowercase(words[k])]
        kept == SelectSeq(lower, LAMBDA w : Len(w) > 2 /\ w \notin stop_words)
        trimmed == [k \in 1..Len(kept) |-> trim_matches(kept[k])]
    IN SelectSeq(trimmed, LAMBDA w : w # "")

\* content LIKE '%keyword%': LIKE does not tell the case of ASCII letters
like(content, keyword) == contains(to_lowercase(content), to_lowercase(keyword))

\* what MemoryManager::save_explicit is called with
SaveChoices ==
    { [memory_type |-> "lesson", content |-> "mock Redis", context |-> "tests"],
      [memory_type |-> "lesson", content |-> "fichier ^~ jour", context |-> ""],
      [memory_type |-> "fact", content |-> "uses Jest", context |-> ""],
      [memory_type |-> "pattern", content |-> "tests mock Redis", context |-> ""] }

Queries == {"", "mock Redis", "how to mock the tests"}

\* the words search_by_similarity and retrieve look for, and like, computed once
first_words == [query \in Queries |-> take(split_whitespace(query), 5)]

keywords_of == [query \in Queries |-> extract_keywords(query)]

like_of ==
    LET words == UNION {{first_words[q][k] : k \in 1..Len(first_words[q])}
                        \cup {keywords_of[q][k] : k \in 1..Len(keywords_of[q])} :
                        q \in Queries}
    IN [content \in {c.content : c \in SaveChoices} |->
           [keyword \in words |-> like(content, keyword)]]

\* MemoryStore::search_by_keywords: ORDER BY importance DESC
search_by_keywords(mems, keywords) ==
    IF keywords = <<>> THEN <<>>
    ELSE Ordered({i \in Present(mems) :
                     \E k \in 1..Len(keywords) : like_of[mems[i].content][keywords[k]]},
                 LAMBDA i : mems[i].importance)

\* MemoryStore::get_by_type: ORDER BY importance DESC, last_used DESC
get_by_type(mems, memory_type) ==
    Ordered({i \in Present(mems) : mems[i].memory_type = memory_type},
            LAMBDA i : InHundredths(mems[i].importance) * 1000 + mems[i].last_used)

\* ScoredMemory; the scores are integers, see compute_combined_score
ScoredMemory(id, memory, semantic_score) ==
    [id |-> id, memory |-> memory, semantic_score |-> semantic_score,
     combined_score |-> 0]

\* variant: without an embedding service the search is an error
search_by_similarity_needs_service(mems, emb, service, query, limit, embed_ok) ==
    IF ~service \/ ~embed_ok THEN [ok |-> FALSE, results |-> <<>>]
    ELSE LET ids == Ordered(Present(mems) \cap emb,
                            LAMBDA i : Similarity(query, mems[i].content))
         IN [ok |-> TRUE,
             results |-> take([k \in 1..Len(ids) |->
                                  ScoredMemory(ids[k], mems[ids[k]],
                                               Similarity(query, mems[ids[k]].content))],
                              limit)]

\* MemoryStore::search_by_similarity; the similarities are in hundredths and
\* embed_ok is whether svc.embed of the query succeeds
search_by_similarity(mems, emb, service, query, limit, embed_ok) ==
    IF ~service
    THEN LET ids == search_by_keywords(mems, first_words[query])
         IN [ok |-> TRUE,
             results |-> [k \in 1..Len(ids) |-> ScoredMemory(ids[k], mems[ids[k]], 50)]]
    ELSE IF ~embed_ok THEN [ok |-> FALSE, results |-> <<>>]
    ELSE LET ids == Ordered(Present(mems) \cap emb,
                            LAMBDA i : Similarity(query, mems[i].content))
         IN [ok |-> TRUE,
             results |-> take([k \in 1..Len(ids) |->
                                  ScoredMemory(ids[k], mems[ids[k]],
                                               Similarity(query, mems[ids[k]].content))],
                              limit)]

\* MemoryRetriever::semantic_search
semantic_search(mems, emb, service, query, limit, embed_ok) ==
    search_by_similarity(mems, emb, service, query, limit, embed_ok).results

\* MemoryRetriever::get_always_include
get_always_include(mems) ==
    LET of(memory_type) ==
            SelectSeq(take(get_by_type(mems, memory_type), 3),
                      LAMBDA i : mems[i].importance >= Hundredths(70))
    IN of("lesson") \o of("decision")

\* the loops of retrieve that push the memories not yet among the scored ones
RECURSIVE push_new(_, _, _)
push_new(scored, ids, mems) ==
    IF ids = <<>> THEN scored
    ELSE IF \E k \in 1..Len(scored) : scored[k].id = Head(ids)
    THEN push_new(scored, Tail(ids), mems)
    ELSE push_new(Append(scored, ScoredMemory(Head(ids), mems[Head(ids)], 0)),
                  Tail(ids), mems)

\* exp(-days_since_used / 30) in hundredths: the calls of one behaviour are
\* seconds apart, days_since_used is below 0.005
recency(secs) == 100

\* Memory::effective_importance, in units of 1/200000; the rows of a retrieval
\* have not decayed, their importance is a whole number of hundredths
effective_importance(memory, t) ==
    InHundredths(memory.importance) * recency(t - memory.last_used)
        * (10 + Min(memory.use_count, 10))
        * (IF decays(memory.memory_type) THEN 2 ELSE 3)

\* MemoryRetriever::compute_combined_score, in units of 1/8000000; the rows
\* carry no source_file, file_boost is 1.0
compute_combined_score(sm, t) ==
    LET memory == sm.memory
        type_boost == CASE memory.memory_type = "lesson" -> 15
                        [] memory.memory_type = "decision" -> 13
                        [] memory.memory_type = "preference" -> 12
                        [] OTHER -> 10
        combined == sm.semantic_score * 2800
                    + effective_importance(memory, t)
                    + recency(t - memory.last_used) * 1200
                    + Min(memory.use_count, 20) * 4000
                    + 120000
    IN combined * type_boost

\* sort_by on combined_score, largest first
sort_by_combined(scored) ==
    LET keyed == sort_desc([k \in 1..Len(scored) |->
                               [key |-> scored[k].combined_score, sm |-> scored[k]]])
    IN [k \in 1..Len(keyed) |-> keyed[k].sm]

\* the loop of diverse_top_k
RECURSIVE diverse_loop(_, _, _, _)
diverse_loop(scored, k, max_per_type, result) ==
    IF scored = <<>> THEN result
    ELSE LET sm == Head(scored)
             count == Cardinality({j \in 1..Len(result) :
                                      result[j].memory.memory_type = sm.memory.memory_type})
         IN IF count < max_per_type \/ Len(result) < k \div 2
            THEN IF Len(result) + 1 >= k
                 THEN Append(result, sm)
                 ELSE diverse_loop(Tail(scored), k, max_per_type, Append(result, sm))
            ELSE diverse_loop(Tail(scored), k, max_per_type, result)

\* variant: the cap of a type does not stop the loop
diverse_top_k_no_cap(scored, k) ==
    IF Len(scored) <= k THEN scored
    ELSE take(sort_by_combined(scored), k)

\* MemoryRetriever::diverse_top_k
diverse_top_k(scored, k) ==
    IF Len(scored) <= k THEN scored
    ELSE diverse_loop(sort_by_combined(scored), k, Max(k \div 3, 2), <<>>)

\* the calls of mark_used of retrieve, at time t
RECURSIVE mark_all(_, _, _)
mark_all(mems, result, t) ==
    IF result = <<>> THEN mems
    ELSE mark_all(Sql_mark_used(mems, Head(result).id, t), Tail(result), t)

\* the value of RetrievalContext.type_filter: None, or the types
NoFilter == [some |-> FALSE, types |-> {}]

\* retrieve, 2: the keyword search when the semantic one found too little
supplement(mems, semantic, limit, keywords) ==
    IF Len(semantic) < limit /\ keywords # <<>>
    THEN push_new(semantic, search_by_keywords(mems, keywords), mems)
    ELSE semantic

\* retrieve, 4: the combined scores
score_all(all, t) ==
    [k \in 1..Len(all) |->
        [all[k] EXCEPT !.combined_score = compute_combined_score(all[k], t)]]

\* retrieve, 5: the retain of the type filter
retain_types(sorted, type_filter) ==
    IF type_filter.some
    THEN SelectSeq(sorted, LAMBDA sm : sm.memory.memory_type \in type_filter.types)
    ELSE sorted

\* retrieve, 7: the result and the table after mark_used
marked(mems, result, t) == [result |-> result, memories |-> mark_all(mems, result, t)]

\* MemoryRetriever::retrieve at time t: the result and the table after it
retrieve(mems, emb, service, limit, query, type_filter, embed_ok, t) ==
    LET semantic == IF query # ""
                    THEN semantic_search(mems, emb, service, query, limit * 2, embed_ok)
                    ELSE <<>>
        supplemented == supplement(mems, semantic, limit, keywords_of[query])
        all == push_new(supplemented, get_always_include(mems), mems)
        sorted == sort_by_combined(score_all(all, t))
        result == diverse_top_k(retain_types(sorted, type_filter), limit)
    IN marked(mems, result, t)

\* results.truncate(limit) of search
truncated_to(r, limit) ==
    [result |-> take(r.result, limit), retrieved |-> r.result, memories |-> r.memories]

\* MemoryManager::search (the memory is enabled)
search(mems, emb, service, max_count, query, type_filter, limit, embed_ok, t) ==
    truncated_to(retrieve(mems, emb, service, max_count, query, type_filter, embed_ok, t),
                 limit)

\* A text is the sequence of its UTF-8 bytes.  A character outside ASCII is
\* two bytes, written ^ (the lead byte) and ~ (the continuation byte).
is_continuation_byte(c) == c = "~"

\* str::is_char_boundary
is_char_boundary(s, index) ==
    \/ index = 0
    \/ index = Len(s)
    \/ index < Len(s) /\ ~is_continuation_byte(SubSeq(s, index + 1, index + 1))

\* truncate_context of injector.rs
truncate_context(ctx) == IF Len(ctx) <= 60 THEN ctx ELSE SubSeq(ctx, 1, 60)

\* type_order of format_memories
type_order ==
    << [memory_type |-> "lesson", header |-> "Lessons Learned"],
       [memory_type |-> "decision", header |-> "Decisions Made"],
       [memory_type |-> "preference", header |-> "User Preferences"],
       [memory_type |-> "pattern", header |-> "Codebase Patterns"],
       [memory_type |-> "location", header |-> "Code Locations"],
       [memory_type |-> "fact", header |-> "Project Facts"] >>

\* the bullet of one memory; the context of a row is "" when it is None
bullet(memory) ==
    CASE memory.memory_type = "lesson" ->
            "- **[LESSON]** " \o memory.content
                \o (IF memory.context # ""
                    THEN " _(" \o truncate_context(memory.context) \o ")"
                    ELSE "")
      [] memory.memory_type = "decision" -> "- **[DECISION]** " \o memory.content
      [] OTHER -> "- " \o memory.content

RECURSIVE bullets(_)
bullets(mems) ==
    IF mems = <<>> THEN ""
    ELSE bullet(Head(mems).memory) \o "\n" \o bullets(Tail(mems))

\* the sections of format_memories, from the k-th type of type_order on
RECURSIVE sections_from(_, _)
sections_from(retrieved, k) ==
    IF k > Len(type_order) THEN <<>>
    ELSE LET mems == SelectSeq(retrieved,
                               LAMBDA sm : sm.memory.memory_type = type_order[k].memory_type)
         IN (IF mems = <<>> THEN <<>>
             ELSE << "### " \o type_order[k].header \o "\n" \o bullets(take(mems, 5)) >>)
            \o sections_from(retrieved, k + 1)

\* MemoryInjector::format_memories
format_memories(retrieved) ==
    LET sections == sections_from(retrieved, 1)
    IN IF sections = <<>> THEN ""
       ELSE "<project_memory>\n## Project Memory\n\n" \o join(sections, "\n")
                \o "</project_memory>"

\* str::rfind('\n'): the byte index of the last newline, or -1
rfind_newline(s) ==
    LET at == {i \in 1..Len(s) : SubSeq(s, i, i) = "\n"}
    IN IF at = {} THEN -1 ELSE (CHOOSE i \in at : \A j \in at : j <= i) - 1

\* MemoryInjector::truncate_to_token_limit: the String it returns, or the
\* panic of &text[..max_chars] when max_chars is inside a character
truncate_to_token_limit(text, max_tokens) ==
    LET max_chars == max_tokens * 4
    IN IF Len(text) <= max_chars THEN [kind |-> "some", text |-> text]
       ELSE IF ~is_char_boundary(text, max_chars) THEN [kind |-> "panic", text |-> ""]
       ELSE LET truncated == SubSeq(text, 1, max_chars)
                last_newline == rfind_newline(truncated)
            IN IF last_newline >= 0
               THEN [kind |-> "some",
                     text |-> SubSeq(truncated, 1, last_newline) \o "\n... (truncated)"]
               ELSE [kind |-> "some", text |-> truncated \o "... (truncated)"]

\* MemoryInjector::build_memory_context (the memory is enabled) on the result
\* of its retrieve: None, Some(text), or the panic
build_memory_context(retrieved, max_tokens) ==
    IF retrieved = <<>> THEN [kind |-> "none", text |-> ""]
    ELSE LET formatted == format_memories(retrieved)
         IN IF formatted = "" THEN [kind |-> "none", text |-> ""]
            ELSE truncate_to_token_limit(formatted, max_tokens)

\* Part VI - actions

\* the configurations: MemoryConfig::default, and ones with a smaller
\* max_retrieval_count or max_injection_tokens
Configs ==
    { [max_retrieval_count |-> 15, max_injection_tokens |-> 2000],
      [max_retrieval_count |-> 1, max_injection_tokens |-> 2000],
      [max_retrieval_count |-> 15, max_injection_tokens |-> 10],
      [max_retrieval_count |-> 15, max_injection_tokens |-> 20] }

TypeFilters == {NoFilter, [some |-> TRUE, types |-> {"lesson"}]}

SearchLimits == {1, 10}

\* MemoryManager::save_explicit: Memory::new and MemoryStore::insert, the
\* embedding computed when there is a service and svc.embed succeeds
save_explicit ==
    /\ ExtractorIdle
    /\ next_id < MaxMemories
    /\ \E c \in SaveChoices, embed_ok \in (IF embedding_service THEN BOOLEAN ELSE {TRUE}) :
        /\ memories' = Sql_insert(memories, next_id + 1,
                                  with_context(Memory_new(c.memory_type, c.content, now),
                                               c.context))
        /\ embedded' = IF embedding_service /\ embed_ok
                       THEN embedded \cup {next_id + 1} ELSE embedded
    /\ docs' = docs \cup {next_id + 1}
    /\ next_id' = next_id + 1
    /\ store_last' = "insert"
    /\ store_ops' = store_ops + 1
    /\ UNCHANGED << relationships, conn_lock, store_pc, store_caller, store_arg,
                    store_deleted, foreign_keys, now, ext_vars, embedding_service,
                    max_retrieval_count, max_injection_tokens, retrieval, diverse,
                    chat_vars, sub_vars >>
    /\ UNCHANGED << decay_run, extractions >>

\* what search_by_similarity gave semantic_search: Ok or Err, and the ids
\* and the similarities
similarity_result(found) ==
    [ok |-> found.ok,
     results |-> [k \in 1..Len(found.results) |->
                     [id |-> found.results[k].id,
                      similarity |-> found.results[k].semantic_score]]]

\* the call of search_by_similarity of a retrieve: none when the query is empty
semantic_call(mems, emb, service, limit, query, embed_ok) ==
    IF query = "" THEN NoRetrieval.semantic
    ELSE similarity_result(search_by_similarity(mems, emb, service, query, limit * 2,
                                                embed_ok))

\* a call of the retriever runs to its end
RetrieverCall(call, query, limit, semantic, r, returned, rendered, context) ==
    /\ memories' = r.memories
    /\ retrieval' = [call |-> call, query |-> query, limit |-> limit,
                     semantic |-> semantic,
                     candidates |-> [k \in 1..Len(r.result) |-> r.result[k].id],
                     returned |-> [k \in 1..Len(returned) |-> returned[k].id],
                     rendered |-> rendered, context |-> context, deleted |-> 0]
    /\ store_last' = IF r.result = <<>> THEN store_last ELSE "mark_used"
    /\ store_ops' = store_ops + 1
    /\ UNCHANGED << relationships, docs, conn_lock, store_pc, store_caller, store_arg,
                    store_deleted, foreign_keys, next_id, now, ext_vars, emb_vars,
                    max_retrieval_count, max_injection_tokens, diverse,
                    chat_vars, sub_vars >>
    /\ UNCHANGED << decay_run, extractions >>

\* the outcomes of svc.embed of the query
QueryEmbedOutcomes == IF embedding_service THEN BOOLEAN ELSE {TRUE}

\* MemoryManager::retrieve (MemoryRetriever::retrieve)
Retrieve ==
    /\ ExtractorIdle
    /\ \E query \in Queries, type_filter \in TypeFilters, embed_ok \in QueryEmbedOutcomes :
        \E r \in {retrieve(memories, embedded, embedding_service, max_retrieval_count,
                           query, type_filter, embed_ok, now)} :
            RetrieverCall("retrieve", query, max_retrieval_count,
                          semantic_call(memories, embedded, embedding_service,
                                        max_retrieval_count, query, embed_ok),
                          r, r.result, "", NoRetrieval.context)

\* MemoryManager::search, the memory_search tool
Search ==
    /\ ExtractorIdle
    /\ \E query \in Queries, type_filter \in TypeFilters, limit \in SearchLimits,
          embed_ok \in QueryEmbedOutcomes :
        \E r \in {search(memories, embedded, embedding_service, max_retrieval_count,
                         query, type_filter, limit, embed_ok, now)} :
            RetrieverCall("search", query, limit,
                          semantic_call(memories, embedded, embedding_service,
                                        max_retrieval_count, query, embed_ok),
                          [result |-> r.retrieved, memories |-> r.memories], r.result,
                          "", NoRetrieval.context)

\* MemoryManager::build_context (MemoryInjector::build_memory_context);
\* rendered is the block format_memories made of the retrieved memories
BuildContext ==
    /\ ExtractorIdle
    /\ \E user_message \in Queries, embed_ok \in QueryEmbedOutcomes :
        \E r \in {retrieve(memories, embedded, embedding_service, max_retrieval_count,
                           user_message, NoFilter, embed_ok, now)} :
            RetrieverCall("build_memory_context", user_message, max_retrieval_count,
                          semantic_call(memories, embedded, embedding_service,
                                        max_retrieval_count, user_message, embed_ok),
                          r, r.result, format_memories(r.result),
                          build_memory_context(r.result, max_injection_tokens))

\* the loop of forget_matching: store.delete of each match in turn, counting
\* the calls that deleted a row
RECURSIVE delete_matches(_, _, _)
delete_matches(mems, matches, deleted) ==
    IF matches = <<>> THEN [memories |-> mems, deleted |-> deleted]
    ELSE delete_matches(Sql_delete(mems, Head(matches).id), Tail(matches),
                        IF mems[Head(matches).id].present THEN deleted + 1 ELSE deleted)

\* MemoryManager::forget_matching after its retrieve: r is what retrieve gave
forget_matching(r) == delete_matches(r.memories, r.result, 0)

\* MemoryManager::forget_matching: the retrieve with a default context, and
\* the store.delete (the row and its docs file) of each match
ForgetMatching ==
    /\ ExtractorIdle
    /\ \E query \in Queries, embed_ok \in QueryEmbedOutcomes :
        \E r \in {retrieve(memories, embedded, embedding_service, max_retrieval_count,
                           query, NoFilter, embed_ok, now)},
           semantic \in {semantic_call(memories, embedded, embedding_service,
                                       max_retrieval_count, query, embed_ok)} :
        \E f \in {forget_matching(r)} :
            /\ memories' = f.memories
            /\ docs' = docs \cap Present(f.memories)
            /\ embedded' = embedded \cap Present(f.memories)
            /\ retrieval' = [call |-> "forget_matching", query |-> query,
                             limit |-> max_retrieval_count, semantic |-> semantic,
                             candidates |-> [k \in 1..Len(r.result) |-> r.result[k].id],
                             returned |-> <<>>, rendered |-> "",
                             context |-> NoRetrieval.context, deleted |-> f.deleted]
            /\ store_deleted' = IF r.result = <<>> THEN store_deleted ELSE 1
            /\ store_last' = IF r.result = <<>> THEN store_last ELSE "delete"
            /\ \E fk \in (IF r.result = <<>> THEN {foreign_keys} ELSE ForeignKeysDefault) :
                   /\ foreign_keys' = fk
                   /\ relationships' = Cascade(relationships, f.memories, fk)
    /\ store_ops' = store_ops + 1
    /\ UNCHANGED << conn_lock, store_pc, store_caller, store_arg, next_id, now,
                    ext_vars, embedding_service, max_retrieval_count,
                    max_injection_tokens, diverse, chat_vars, sub_vars >>
    /\ UNCHANGED << decay_run, extractions >>

ForgetNext ==
    \/ save_explicit
    \/ ForgetMatching

\* the lists diverse_top_k is called with: every list of up to MaxScored
\* memories of three types, and the lists of up to MaxRun lessons followed by
\* up to MaxRun facts; the scores fall (or rise) along the list
ScoredKinds == {"fact", "pattern", "lesson"}

KindLists ==
    UNION {[1..n -> ScoredKinds] : n \in 1..MaxScored}
    \cup {[i \in 1..(a + b) |-> IF i <= a THEN "lesson" ELSE "fact"] :
             a \in 0..MaxRun, b \in 0..MaxRun}

ScoredList(kinds, rising) ==
    [i \in 1..Len(kinds) |->
        [ScoredMemory(i, Memory_new(kinds[i], "memory", 0), 0)
            EXCEPT !.combined_score = IF rising THEN i ELSE 100 - i]]

DiverseKs == {4, 5, 6, 12, 15}

\* MemoryRetriever::diverse_top_k is applied to a list, once in a behaviour
DiverseTopK ==
    /\ diverse = NoDiverse
    /\ \E kinds \in KindLists, rising \in BOOLEAN, k \in DiverseKs :
        \E scored \in {ScoredList(kinds, rising)} :
            diverse' = [scored |-> scored, k |-> k, result |-> diverse_top_k(scored, k)]
    /\ UNCHANGED << memories, relationships, docs, conn_lock, store_pc, store_caller,
                    store_arg, store_last, store_deleted, store_ops, foreign_keys,
                    next_id, now, ext_vars, emb_vars, max_retrieval_count,
                    max_injection_tokens, retrieval, chat_vars, sub_vars >>
    /\ UNCHANGED << decay_run, extractions >>

RetrieveNext ==
    \/ save_explicit
    \/ Retrieve
    \/ Search
    \/ BuildContext

DiverseNext == DiverseTopK

----------------------------------------------------------------------------
vars == << chat_vars, sub_vars, mem_vars >>

Init == ChatInit /\ SubInit /\ MemInit

SpecChat == Init /\ [][ChatNext]_vars

SpecTurn == Init /\ [][TurnNext]_vars

SpecPlan == Init /\ [][PlanNext]_vars

SpecSub == Init /\ [][SubNext]_vars

SpecSubCancel == Init /\ [][SubCancelNext]_vars

SpecStore == Init /\ [][StoreNext]_vars

SpecExtract == Init /\ [][ExtractNext]_vars

SpecExtractRace == Init /\ [][ExtractRaceNext]_vars

\* the store with or without the embedding service
LlmInit == ChatInit /\ SubInit /\ StoreInit /\ ConfigDefault /\ embedding_service \in BOOLEAN

SpecLlm == LlmInit /\ [][LlmNext]_vars

\* the retriever and the injector, with or without an embedding service and
\* under the configurations Configs
RetrieveInit ==
    /\ ChatInit /\ SubInit /\ StoreInit
    /\ embedding_service \in BOOLEAN
    /\ \E config \in Configs :
        /\ max_retrieval_count = config.max_retrieval_count
        /\ max_injection_tokens = config.max_injection_tokens

SpecRetrieve == RetrieveInit /\ [][RetrieveNext]_vars

\* forget_matching on the memories saved before it
SpecForget == RetrieveInit /\ [][ForgetNext]_vars

SpecDiverse == Init /\ [][DiverseNext]_vars

\* the store with the scheduling of the executor: a call that can take its next
\* step (a granted lock, a finished file operation) takes it
SpecStoreFair ==
    /\ Init
    /\ [][StoreNext]_vars
    /\ WF_vars(LockGranted)
    /\ WF_vars(InsertWriteDoc)
    /\ WF_vars(DeleteRemoveDoc)
    /\ WF_vars(PruneSql)

\* the scheduler with the scheduling of the executor: a task future that can
\* take its next step takes it, a deadline that is set elapses, and join_all
\* returns once every future has ended.  Nothing obliges a child to emit.
SpecSubFair ==
    /\ Init
    /\ [][SubNext]_vars
    /\ \A t \in TaskIds :
           /\ WF_vars(TaskStart(t))
           /\ WF_vars(Spawn(t))
           /\ WF_vars(Submit(t))
           /\ WF_vars(Recv(t))
           /\ WF_vars(Send(t))
           /\ WF_vars(Timeout(t))
           /\ WF_vars(Final(t))
    /\ WF_vars(Return)

----------------------------------------------------------------------------
\* Part I - properties

\* the events of a log, without the bookkeeping
Events(log) == [k \in 1..Len(log) |-> log[k].ev]

RECURSIVE OfKinds(_, _)
OfKinds(log, kinds) ==
    IF log = <<>> THEN <<>>
    ELSE IF Head(log).kind \in kinds
         THEN <<Head(log)>> \o OfKinds(Tail(log), kinds)
         ELSE OfKinds(Tail(log), kinds)

ExecMcpKinds == {"ExecBegin", "ExecEnd", "McpBegin", "McpEnd"}

\* C1: the exec and MCP begin/end events are handled in the order of their
\* delivery (what has been handled is a prefix of what has been delivered), so
\* ExecEnd(i) is never handled ahead of its ExecBegin(i); and none of them is
\* handled while an assistant stream is still open.
C1_InterruptFifo ==
    /\ IsPrefix(OfKinds(Events(handled), ExecMcpKinds), OfKinds(delivered, ExecMcpKinds))
    /\ \A i \in CallIds :
           Count(Events(handled), "ExecEnd", i) <= Count(Events(handled), "ExecBegin", i)
    /\ \A k \in 1..Len(handled) :
           handled[k].ev.kind \in ExecMcpKinds => ~handled[k].stream_open

\* C1 witness: ExecBegin(A) and ExecEnd(A) were both queued and then replayed,
\* the begin ahead of the end
C1_Witness ==
    \E j, k \in 1..Len(handled) :
        /\ j < k
        /\ handled[j].replayed /\ handled[j].ev.kind = "ExecBegin" /\ handled[j].ev.call_id = "A"
        /\ handled[k].replayed /\ handled[k].ev.kind = "ExecEnd" /\ handled[k].ev.call_id = "A"

\* C2: once a user interrupt has been handled, no cell is active, no command
\* is running and the deferred-interrupt queue is empty.
C2_InterruptLeavesNothingPending ==
    last_event = "Interrupted" =>
        /\ active_cell = NoCell
        /\ running_commands = {}
        /\ interrupts = <<>>

\* C3: a step that flushes the open stream (the final AgentMessage,
\* TaskComplete, ExecBegin) leaves the deferred-interrupt queue empty.
C3_FlushReplaysQueue ==
    [][ (stream_controller.is_some
            /\ last_event' \in {"AgentMessage", "TaskComplete", "ExecBegin"})
        => (~stream_controller'.is_some /\ interrupts' = <<>>) ]_vars

\* C4: while the deferred-interrupt queue is not empty, a delivered exec, patch
\* or MCP begin/end event is queued and not handled.
C4_QueueingContinues ==
    [][ (interrupts # <<>> /\ delivered' # delivered)
        => (handled' = handled /\ interrupts' = Append(interrupts, delivered'[Len(delivered')])) ]_vars

\* C5: an interrupt submits none of the queued user messages; their texts go
\* to the composer in queueing order, ahead of the text the composer held,
\* and the queue of deferred user messages becomes empty.
C5_InterruptRestoresQueued ==
    [][ (last_event' = "Interrupted" /\ queued_user_messages # <<>>) =>
          LET queued_text ==
                  Join([i \in 1..Len(queued_user_messages) |->
                            queued_user_messages[i].text], NL)
          IN /\ codex_op_tx' = codex_op_tx
             /\ queued_user_messages' = <<>>
             /\ IsPrefix(queued_text, composer_text')
             /\ IsSuffix(composer_text, composer_text')
             /\ Len(composer_text') =
                    Len(queued_text) + Len(composer_text)
                    + (IF queued_text # <<>> /\ composer_text # <<>> THEN 1 ELSE 0) ]_vars

\* C5 witness: two queued messages were restored ahead of a draft
C5_Witness ==
    /\ last_event = "Interrupted"
    /\ composer_text = <<"a", "\n", "b", "\n", "a">>
    /\ queued_user_messages = <<>>
    /\ codex_op_tx = <<>>

----------------------------------------------------------------------------
\* Part II - properties of the subagent scheduler

\* the status updates and the history items of task t on the parent's bus
RECURSIVE BusOf(_, _, _)
BusOf(bus, type, t) ==
    IF bus = <<>> THEN <<>>
    ELSE IF Head(bus).type = type /\ Head(bus).task = t
         THEN <<Head(bus)>> \o BusOf(Tail(bus), type, t)
         ELSE BusOf(Tail(bus), type, t)

HistoryEventsOf(t) ==
    LET items == BusOf(parent_bus, "SubagentHistoryItem", t)
    IN [k \in 1..Len(items) |-> items[k].event]

\* the limit applied to a call: the configured one within [MIN, HARD_CAP]
AppliedLimit ==
    IF sub_raw_limit < SUBAGENT_LIMIT_MIN THEN SUBAGENT_LIMIT_MIN
    ELSE IF sub_raw_limit > SUBAGENT_LIMIT_HARD_CAP THEN SUBAGENT_LIMIT_HARD_CAP
    ELSE sub_raw_limit

\* C6: a subagent_run call with more tasks than the applied limit is rejected
\* with an error; no task future of it starts, no child is spawned and no
\* status update reaches the parent.
C6_OverLimitRejected ==
    (sub_pc # "idle" /\ sub_ntasks > AppliedLimit) =>
        /\ sub_pc = "rejected"
        /\ sub_error # "none"
        /\ parent_bus = <<>>
        /\ \A t \in TaskIds :
               /\ task_pc[t] = "absent"
               /\ ~child_alive[t]
               /\ child_policy[t] = NoneStr

\* C6 witness: two tasks under a configured limit of 0, which is applied as 1
C6_Witness ==
    /\ sub_pc = "rejected"
    /\ sub_error = "too many subagent tasks"
    /\ sub_ntasks = 2
    /\ sub_raw_limit = 0

\* C7: a child conversation that was spawned has approval policy Never,
\* whatever the policy of the parent session.
C7_ChildPolicyNever ==
    \A t \in TaskIds :
        (child_alive[t] \/ child_policy[t] # NoneStr) => child_policy[t] = "Never"

\* C7 witness: a live child of a parent whose policy is OnRequest
C7_Witness ==
    \E t \in TaskIds :
        /\ parent_approval = "OnRequest"
        /\ child_alive[t]
        /\ child_policy[t] = "Never"

\* C8: once the parent turn is cancelled, no child of the call is alive any
\* longer and nothing more of the call reaches the parent.
C8_CancelTerminatesChildren ==
    [][ turn_cancelled =>
            /\ parent_bus' = parent_bus
            /\ \A t \in TaskIds : ~child_alive'[t] ]_vars

\* C9: the final status update of a task is Done only when its child emitted
\* TaskComplete, Timeout only when the task has a deadline, and Failed when
\* the child ended without completing its turn; it carries a summary.
C9_FinalStatusMatchesEnd ==
    \A t \in TaskIds :
        LET updates == BusOf(parent_bus, "SubagentTaskUpdate", t)
        IN \A k \in 1..Len(updates) :
               LET u == updates[k]
                   completed == HasKind(child_out[t], "TaskComplete")
               IN u.status # "Running" =>
                      /\ u.status = "Done" => completed
                      /\ u.status = "Timeout" => task_timeout[t].some
                      /\ u.status = "Failed" => ~completed
                      /\ (child_closed[t] /\ ~completed) => u.status \in {"Failed", "Timeout"}
                      /\ u.summary # NoneStr

\* the kinds of child events that travel to the parent as history items
C10_HistoryKinds == {"ExecCommandBegin", "ExecCommandEnd", "TaskComplete"}

\* C10: the history items of a task on the parent's bus are the exec and
\* task-complete events of its child in the child's emission order, each once:
\* a prefix of them while the task runs, all of them when the task is done;
\* each carries the index of its task.
C10_HistoryInChildOrder ==
    \A t \in TaskIds :
        LET got == HistoryEventsOf(t)
            want == OfKinds(child_out[t], C10_HistoryKinds)
            items == BusOf(parent_bus, "SubagentHistoryItem", t)
        IN /\ IsPrefix(got, want)
           /\ task_result[t] = "done" => got = want
           /\ \A k \in 1..Len(items) : items[k].agent_index = t - 1

\* C10 witness: two history items of task 1 reached the parent in the child's
\* order while task 2 of the same call was running, an update of task 2
\* between them
C10_Witness ==
    \E i, j, k \in 1..Len(parent_bus) :
        /\ i < j /\ j < k
        /\ parent_bus[i].type = "SubagentHistoryItem" /\ parent_bus[i].task = 1
        /\ parent_bus[j].task = 2
        /\ parent_bus[k].type = "SubagentHistoryItem" /\ parent_bus[k].task = 1
        /\ parent_bus[i].event.n < parent_bus[k].event.n
        /\ task_result[1] = "done"

\* the final (not Running) status updates of task t on the parent's bus
RECURSIVE FinalUpdates(_)
FinalUpdates(updates) ==
    IF updates = <<>> THEN <<>>
    ELSE IF Head(updates).status # "Running"
         THEN <<Head(updates)>> \o FinalUpdates(Tail(updates))
         ELSE FinalUpdates(Tail(updates))

FinalUpdatesOf(t) == FinalUpdates(BusOf(parent_bus, "SubagentTaskUpdate", t))

\* C11: a task whose deadline expires gets the status Timeout with an error
\* string; the expiry changes nothing of its siblings; and the handler has
\* returned only when every task of the call has its one final status.
C11_TimeoutLeavesSiblings ==
    /\ [] (\A t \in TaskIds :
              (task_result[t] = "timeout" /\ task_pc[t] = "done") =>
                  /\ Len(FinalUpdatesOf(t)) = 1
                  /\ FinalUpdatesOf(t)[1].status = "Timeout"
                  /\ FinalUpdatesOf(t)[1].summary = "timed out after Ns")
    /\ [] (sub_pc = "returned" =>
              \A t \in TaskIds :
                  t <= sub_ntasks =>
                      /\ task_pc[t] = "done"
                      /\ Len(FinalUpdatesOf(t)) = 1)
    /\ [][ \A t \in TaskIds :
               (task_result[t] # "timeout" /\ task_result'[t] = "timeout") =>
                   \A s \in TaskIds \ {t} :
                       /\ task_pc'[s] = task_pc[s]
                       /\ task_result'[s] = task_result[s]
                       /\ child_alive'[s] = child_alive[s]
                       /\ cur_event'[s] = cur_event[s] ]_vars

\* C11 witness: the call has returned, task 1 timed out, and task 2 completed
\* its turn and got Done after the Timeout update of task 1
C11_Witness ==
    /\ sub_pc = "returned"
    /\ task_result[1] = "timeout"
    /\ task_result[2] = "done"
    /\ HasKind(child_out[2], "TaskComplete")
    /\ \E i, j \in 1..Len(parent_bus) :
           /\ i < j
           /\ parent_bus[i].task = 1 /\ parent_bus[i].status = "Timeout"
           /\ parent_bus[j].task = 2 /\ parent_bus[j].status = "Done"

----------------------------------------------------------------------------
\* Part III - properties of the store

\* C12: every call of prune_low_importance eventually returns, also when it
\* deleted rows and goes on to scan the docs directory; so DecayManager's
\* apply_decay and MemoryManager::init, which call it, return as well.
C12_PruneReturns ==
    \A caller \in {"store", "decay", "init"} :
        (store_pc = "prune_call" /\ store_caller = caller) ~> (store_caller = "none")

\* C13: the store lock is held only while SQL executes: not while the
\* embedding is computed, not during the I/O on the docs files, and not while
\* the task that holds it waits to take it again.
C13_LockOnlyDuringSql ==
    /\ store_pc = "insert_embed" => conn_lock = "free"
    /\ store_pc \in {"insert_doc", "delete_doc", "cleanup_lock"} => conn_lock = "free"

\* C14: a step of apply_decay or of prune_low_importance leaves every Lesson
\* and every Decision in the store, with the importance it had.
C14_LessonsDecisionsKept ==
    [][ (ApplyDecay \/ PruneSql) =>
            \A id \in MemIds :
                (memories[id].present
                 /\ memories[id].memory_type \in {"lesson", "decision"}) =>
                    /\ memories'[id].present
                    /\ memories'[id].importance = memories[id].importance ]_vars

\* C14 witness: DecayManager::apply_decay has decayed and pruned, the prune
\* deleted a row, and a Lesson whose importance is under the threshold is
\* still there
C14_Witness ==
    /\ store_caller = "decay"
    /\ store_last = "prune"
    /\ store_deleted > 0
    /\ \E id \in MemIds :
           /\ memories[id].present
           /\ memories[id].memory_type = "lesson"
           /\ memories[id].importance = Hundredths(5)
           /\ memories[id].importance < Hundredths(min_importance_threshold)

\* C15: a step that removes a memory (delete, forget or prune) leaves no
\* relationship edge that has it as from_id or as to_id.
C15_NoEdgeOfRemovedMemory ==
    [][ \A id \in MemIds :
            (memories[id].present /\ ~memories'[id].present) =>
                \A r \in relationships' : r.from_id # id /\ r.to_id # id ]_vars

\* C16: the importance of every stored memory is within 0 and 1.
C16_ImportanceInRange ==
    \A id \in MemIds :
        memories[id].present =>
            /\ 0 <= memories[id].importance
            /\ memories[id].importance <= ImportanceUnit

\* C17: created_at <= last_used for every stored memory, after any sequence
\* of insert, mark_used and reinforce.
C17_CreatedBeforeLastUsed ==
    \A id \in MemIds :
        memories[id].present => memories[id].created_at <= memories[id].last_used

\* C17 witness: mark_used has just stamped a memory at a time later than its
\* creation
C17_Witness ==
    /\ store_last = "mark_used"
    /\ \E id \in MemIds :
           /\ memories[id].present
           /\ memories[id].use_count > 0
           /\ memories[id].created_at < memories[id].last_used
           /\ memories[id].last_used = now

----------------------------------------------------------------------------
\* Part III - properties of the extractor

\* C18: the calls of the extractor never leave two stored memories with the
\* same content and the same kind.
C18_NoDuplicateMemories ==
    \A i, j \in MemIds :
        (i # j /\ memories[i].present /\ memories[j].present) =>
            ~(/\ memories[i].content = memories[j].content
              /\ memories[i].memory_type = memories[j].memory_type)

\* the step is on_exec_complete of the command with exit code 0
ExecSucceeds(command) ==
    /\ store_ops' = store_ops + 1
    /\ last_call' = [kind |-> "exec", command |-> command, exit_code |-> 0]

\* the Lessons among the memories a call returned
LessonsOf(ms) == SelectSeq(ms, LAMBDA m : m.memory_type = "lesson")

\* the call returned the one Lesson of the fix of `failed` by command, and
\* the entry of the key is gone
OneFixLesson(failed, command) ==
    /\ Len(LessonsOf(emitted')) = 1
    /\ LessonsOf(emitted')[1].importance = Hundredths(95)
    /\ LessonsOf(emitted')[1].content =
           "When '" \o failed.command \o "' fails with '" \o failed.error
               \o "', try '" \o command \o "'"
    /\ ~ \E f \in recent_failures' : f.key = failure_key_of[command]

C20_FixOnlyWithinWindow ==
    [][ \A command \in ExecCommands :
            (ExecSucceeds(command) /\ LessonsOf(emitted') # <<>>) =>
                now - last_exec[failure_key_of[command]].at <= max_failure_age_secs ]_vars

\* C21: within one 5-minute window, when "npm test" has failed with exit code 1
\* and stderr "ENOENT: npm not found" and "pnpm test" then succeeds, the store
\* holds exactly one Lesson of content "When 'npm test' fails with 'ENOENT: npm
\* not found', try 'pnpm test'" and of importance 0.95
C21_NpmTestFixedByPnpmTest ==
    [][(/\ last_exec["npm test"].pending
        /\ last_exec["npm test"].error = "ENOENT: npm not found"
        /\ now - last_exec["npm test"].at < max_failure_age_secs
        /\ last_call' = [kind |-> "exec", command |-> "pnpm test", exit_code |-> 0]
        /\ store_ops' = store_ops + 1)
       => Cardinality({id \in Present(memories') :
              /\ memories'[id].memory_type = "lesson"
              /\ memories'[id].content =
                     "When 'npm test' fails with 'ENOENT: npm not found', try 'pnpm test'"
              /\ memories'[id].importance = Hundredths(95)}) = 1]_vars

\* the commands extract_from_success takes for a package manager's
PackageManagerCommands ==
    {command \in ExecCommands : \/ starts_with(command, "npm ")
                                \/ starts_with(command, "pnpm ")
                                \/ starts_with(command, "yarn ")}

\* the step delivers again the successful exec event the last call of the
\* extractor delivered
SecondDelivery(command) ==
    /\ last_call = [kind |-> "exec", command |-> command, exit_code |-> 0]
    /\ ExecSucceeds(command)

\* C31: the second of two identical deliveries of a successful
\* package-manager exec event creates no new memory: it returns none and
\* leaves the table as it was
C31_SecondDeliveryStoresNothing ==
    [][ \A command \in PackageManagerCommands :
            SecondDelivery(command) => (emitted' = <<>> /\ memories' = memories) ]_vars

\* the input of the call of extract_from_turn a step makes
TurnStep(stream) ==
    /\ store_ops' = store_ops + 1
    /\ last_call'.kind = "turn"
    /\ last_call'.command = stream

\* C22: when the extraction-model call passes its 30-second deadline, fails,
\* gives no text or gives a text that cannot be parsed, extract_from_turn
\* returns an empty list and changes nothing in the store
C22_FailedExtractionChangesNothing ==
    [][\A stream \in StreamInputs :
          (/\ TurnStep(stream)
           /\ \/ stream.secs >= MEMORY_EXTRACTION_TIMEOUT
              \/ stream.result.kind # "text"
              \/ ~from_str(stream.result.text).ok)
          => /\ emitted' = <<>>
             /\ UNCHANGED << memories, relationships, docs, embedded, next_id >>]_vars

\* a call whose model call passed the deadline, on a store that holds a memory
C22_Witness ==
    /\ last_call.kind = "turn"
    /\ last_call.command.secs >= MEMORY_EXTRACTION_TIMEOUT
    /\ last_call.exit_code = 1
    /\ Present(memories) # {}

\* C23: processing a turn again, with the same extraction output, leaves the
\* memories of the store as they were after the first processing
C23_ReprocessingStoresNothing ==
    [][\A stream \in StreamInputs :
          (/\ last_call.kind = "turn"
           /\ last_call.exit_code = 0
           /\ last_call.command = stream
           /\ TurnStep(stream))
          => memories' = memories]_vars

\* the ops a step sends to the engine
NewOps == SubSeq(codex_op_tx', Len(codex_op_tx) + 1, Len(codex_op_tx'))

IsPlanRequest(text) == text # <<>> /\ Head(text) = PlanPromptInstructions

IsPlanFeedback(text) == text # <<>> /\ Head(text) = "Plan feedback:"

\* C24: in plan mode the first plan update of a workflow moves it from
\* AwaitingPlan to AwaitingApproval and interrupts the turn, and while the
\* workflow is pending (from the plan request to Execute) the only user turns
\* submitted are the plan-decorated request and plan-feedback messages
C24_PlanGatesExecution ==
    [][/\ (/\ plan_workflow.some
           /\ plan_workflow.status = "AwaitingPlan"
           /\ last_event' = "PlanUpdate"
           /\ chat_steps' = chat_steps + 1)
          => /\ plan_workflow'.status = "AwaitingApproval"
             /\ \E k \in 1..Len(NewOps) : NewOps[k].op = "Interrupt"
       /\ (plan_workflow.some /\ plan_workflow'.some)
          => \A k \in 1..Len(NewOps) :
                 NewOps[k].op = "UserInput"
                 => IsPlanRequest(NewOps[k].text) \/ IsPlanFeedback(NewOps[k].text)]_vars

\* the handler has returned and every task of the call has completed
\* normally: its child emitted TaskComplete and the task ended with "done"
AllCompletedNormally ==
    /\ sub_pc = "returned"
    /\ \A t \in 1..sub_ntasks :
           task_result[t] = "done" /\ HasKind(child_out[t], "TaskComplete")

\* number of status updates of task t with the given status
UpdatesOf(t, status) ==
    Cardinality({k \in 1..Len(parent_bus) :
                    /\ parent_bus[k].type = "SubagentTaskUpdate"
                    /\ parent_bus[k].task = t
                    /\ parent_bus[k].status = status})

AgentMessagesOf(t) ==
    Cardinality({k \in 1..Len(child_out[t]) : child_out[t][k].kind = "AgentMessage"})

\* C25: a call with n tasks that all complete normally puts exactly n Running
\* updates (one per task) and exactly n Done updates (one per task) on the
\* parent bus
C25_OneRunningOneDone ==
    AllCompletedNormally =>
        \A t \in 1..sub_ntasks :
            UpdatesOf(t, "Running") = 1 /\ UpdatesOf(t, "Done") = 1

\* C25, amended: each task has one Running update for its start and one more
\* for every assistant message of its child, and exactly one Done update,
\* which is its only final update
C25_RunningPerMessageOneDone ==
    AllCompletedNormally =>
        \A t \in 1..sub_ntasks :
            /\ UpdatesOf(t, "Running") = 1 + AgentMessagesOf(t)
            /\ UpdatesOf(t, "Done") = 1
            /\ Len(FinalUpdatesOf(t)) = 1

\* a call has returned whose child sent an assistant message before it completed
C25_Witness ==
    /\ AllCompletedNormally
    /\ \E t \in 1..sub_ntasks : AgentMessagesOf(t) > 0 /\ UpdatesOf(t, "Running") > 1

\* Part VI - properties of the retriever and the injector

\* the step is a call of the retriever or the injector of the given kind
RetrievalStep(call) ==
    /\ store_ops' = store_ops + 1
    /\ next_id' = next_id
    /\ retrieval'.call = call

\* the ids of the memories the call returned to its caller
Returned(r) == {r.returned[k] : k \in 1..Len(r.returned)}

\* C26: a retrieval calls mark_used exactly once on each memory it returns to
\* its caller and on no other: the use_count of a returned memory grows by
\* exactly 1, the use_count of every other memory is unchanged
C26_MarkUsedExactlyTheReturned ==
    [][RetrievalStep("retrieve") \/ RetrievalStep("search")
       => /\ Cardinality(Returned(retrieval')) = Len(retrieval'.returned)
          /\ \A id \in MemIds :
                 memories'[id].use_count =
                     memories[id].use_count
                         + (IF id \in Returned(retrieval') THEN 1 ELSE 0)]_vars

\* number of memories of a type in a result
KindCount(result, kind) ==
    Cardinality({j \in 1..Len(result) : result[j].memory.memory_type = kind})

KindsIn(result) == {result[j].memory.memory_type : j \in 1..Len(result)}

CeilDiv(a, b) == (a + b - 1) \div b

ends_with(s, suffix) ==
    Len(s) >= Len(suffix) /\ SubSeq(s, Len(s) - Len(suffix) + 1, Len(s)) = suffix

\* build_memory_context has returned Some(text)
ContextReturned ==
    retrieval.call = "build_memory_context" /\ retrieval.context.kind = "some"

\* C28: every context string build_memory_context returns begins with the
\* opening tag <project_memory> and contains the closing tag </project_memory>
C28_ContextWrappedInTags ==
    ContextReturned
    => /\ starts_with(retrieval.context.text, "<project_memory>")
       /\ contains(retrieval.context.text, "</project_memory>")

TruncationMarker == "... (truncated)"

\* the rendered block of the last build_memory_context is longer than the budget
OverBudget ==
    /\ retrieval.call = "build_memory_context"
    /\ Len(retrieval.rendered) > max_injection_tokens * 4

\* C29: when the rendered block is longer than max_injection_tokens * 4, the
\* string returned is the block cut at the last newline within the budget
\* followed by the marker "... (truncated)": it ends with the marker and is
\* no longer than the budget plus the marker
C29_TruncatedAtLastNewline ==
    OverBudget
    => /\ retrieval.context.kind = "some"
       /\ ends_with(retrieval.context.text, TruncationMarker)
       /\ Len(retrieval.context.text) <= max_injection_tokens * 4 + Len(TruncationMarker)
       /\ \E n \in 1..(max_injection_tokens * 4) :
              /\ SubSeq(retrieval.rendered, n, n) = "\n"
              /\ \A j \in (n + 1)..(max_injection_tokens * 4) :
                     SubSeq(retrieval.rendered, j, j) # "\n"
              /\ retrieval.context.text
                     = SubSeq(retrieval.rendered, 1, n) \o TruncationMarker

\* 0.95 * 0.95 = 0.9025 = 361/400: the square of decay_rate as a fraction in
\* lowest terms
decay_rate_squared ==
    [num |-> (decay_rate * decay_rate) \div 25, den |-> (100 * 100) \div 25]

\* the row was in the table before the first apply_decay and nothing but its
\* importance differs since
NotOtherwiseModified(id) ==
    /\ decay_run.base[id].present
    /\ memories[id].present
    /\ [memories[id] EXCEPT !.importance = 0]
           = [decay_run.base[id] EXCEPT !.importance = 0]

\* the rows of a decaying kind that two calls of apply_decay, and nothing
\* else, have written
DecayedTwice ==
    {id \in MemIds : /\ decay_run.n = 2
                     /\ NotOtherwiseModified(id)
                     /\ decays(memories[id].memory_type)}

RetrieverCalls == {"retrieve", "search", "build_memory_context"}

\* the rows whose content holds one of the first five words of the query
KeywordHits(mems, query) ==
    {i \in Present(mems) :
        \E k \in 1..Len(first_words[query]) :
            like_of[mems[i].content][first_words[query][k]]}

\* C32: when there is no embedding service, the search_by_similarity of a
\* retrieval is Ok and gives the keyword hits of the query, each once and with
\* similarity 0.5, and a semantic-duplicate check is Ok and is the exact
\* match of content and kind
C32_NoEmbeddingsKeywordSearch ==
    [][(~embedding_service /\ \E call \in RetrieverCalls : RetrievalStep(call))
       => /\ retrieval'.query # ""
                => /\ retrieval'.semantic.ok
                   /\ Len(retrieval'.semantic.results)
                          = Cardinality(KeywordHits(memories, retrieval'.query))
                   /\ \A i \in KeywordHits(memories, retrieval'.query) :
                          \E k \in 1..Len(retrieval'.semantic.results) :
                              retrieval'.semantic.results[k].id = i
                   /\ \A k \in 1..Len(retrieval'.semantic.results) :
                          retrieval'.semantic.results[k].similarity = 50
          /\ \A c \in SaveChoices, embed_ok \in BOOLEAN :
                 exists_semantically_similar(memories', embedded', embedding_service,
                                             c.content, c.memory_type,
                                             DuplicateThreshold, embed_ok)
                     = [ok |-> TRUE,
                        value |-> \E i \in Present(memories') :
                                      /\ memories'[i].content = c.content
                                      /\ memories'[i].memory_type = c.memory_type]]_vars

\* a retrieval without embedding service whose search_by_similarity gave two
\* keyword hits
C32_Witness ==
    /\ ~embedding_service
    /\ retrieval.call = "retrieve"
    /\ retrieval.semantic.ok
    /\ Len(retrieval.semantic.results) = 2
    /\ retrieval.semantic.results[1].similarity = 50

\* the user turns among the ops a step sends to the engine
NewUserInputs == SelectSeq(NewOps, LAMBDA o : o.op = "UserInput")

TurnEnds == {"TaskComplete", "Error", "Interrupted", "ReviewEnded", "Replaced"}

\* C34: when a turn has ended (TaskComplete, Error or TurnAborted) the
\* deferred-interrupt queue holds none of the events deferred during it
C34_TurnEndEmptiesDeferredQueue ==
    last_event \in TurnEnds => interrupts = <<>>

\* C35: while a plan workflow exists, no step takes the oldest queued user
\* message off the queue and sends it to the engine as a user turn
C35_WorkflowHoldsQueuedMessages ==
    [][ (plan_workflow.some /\ queued_user_messages # <<>>)
        => ~ /\ queued_user_messages' = Tail(queued_user_messages)
             /\ \E k \in 1..Len(NewOps) :
                    NewOps[k] = Op("UserInput", Head(queued_user_messages).text,
                                   Head(queued_user_messages).images) ]_vars

\* the child of task t has completed its turn, has reported an error, or its
\* event stream is closed
ChildEnded(t) ==
    \/ HasKind(child_out[t], "TaskComplete")
    \/ HasKind(child_out[t], "Error")
    \/ child_closed[t]

\* C36: a started task whose child has completed, has ended with an error or
\* a closed stream, or which has a deadline, eventually sends its final
\* status; with or without timeout_ms
C36_StartedTaskEnds ==
    \A t \in TaskIds :
        (task_pc[t] \in {"recv", "send"} /\ (ChildEnded(t) \/ task_timeout[t].some))
            ~> (task_pc[t] = "done")

\* the places on the parent's bus of the final status updates of task t
FinalPlaces(t) ==
    {k \in 1..Len(parent_bus) :
        /\ parent_bus[k].type = "SubagentTaskUpdate"
        /\ parent_bus[k].task = t
        /\ parent_bus[k].status \in {"Done", "Timeout", "Failed"}}

RowsOf(content, memory_type) ==
    {i \in Present(memories) :
        memories[i].content = content /\ memories[i].memory_type = memory_type}

\* C38: when two tasks have each processed an exec event for the same command,
\* whatever the interleaving of their calls, no content and kind has more than
\* one row in the table
C38_ConcurrentExtractionStoresOnce ==
    (/\ \A x \in ExtractTasks : extractions[x].pc = "returned"
     /\ \A x, y \in ExtractTasks : extractions[x].command = extractions[y].command)
    => \A i \in Present(memories) :
           Cardinality(RowsOf(memories[i].content, memories[i].memory_type)) = 1

\* the rows a step deletes
DeletedRows == {id \in MemIds : memories[id].present /\ ~memories'[id].present}

\* the semantic hits of the call and the keyword hits of its query
MatchesOfQuery(mems, call) ==
    {call.semantic.results[k].id : k \in 1..Len(call.semantic.results)}
    \cup {i \in Present(mems) :
             \E k \in 1..Len(keywords_of[call.query]) :
                 like_of[mems[i].content][keywords_of[call.query][k]]}

\* C39: forget_matching deletes only memories that are a semantic or a keyword
\* hit of its query, and the count it returns is the number of rows deleted
C39_ForgetDeletesOnlyMatches ==
    [][RetrievalStep("forget_matching")
       => /\ DeletedRows \subseteq MatchesOfQuery(memories, retrieval')
          /\ retrieval'.deleted = Cardinality(DeletedRows)]_vars

\* the step executes or cancels the plan, sends feedback that refines it, or
\* turns plan mode off
PlanResetStep ==
    \/ last_event' \in {"Execute", "Cancel"} /\ chat_steps' = chat_steps + 1
    \/ \E k \in 1..Len(NewOps) :
           NewOps[k].op = "UserInput" /\ IsPlanFeedback(NewOps[k].text)
    \/ plan_mode_enabled /\ ~plan_mode_enabled'

\* C40: plan_feedback_pending is true only while a plan workflow exists whose
\* status is AwaitingApproval; and executing, cancelling or refining the plan,
\* and turning plan mode off, leave the flag false
C40_FeedbackPendingOnlyInReview ==
    /\ [](plan_feedback_pending
              => plan_workflow.some /\ plan_workflow.status = "AwaitingApproval")
    /\ [][PlanResetStep => ~plan_feedback_pending']_vars

\* C40 witness: feedback is pending and a further plan update has opened the
\* review popup again, from which the plan can be executed or cancelled
C40_Witness ==
    /\ plan_feedback_pending
    /\ plan_popup
    /\ last_event = "PlanUpdate"

====
